---- MODULE Spec2Model ----
(***************************************************************************)
(* Script Manager: the SQLite task store (db.py), the run executor         *)
(* (runner.py), the scheduler service (scheduler_service.py) and the       *)
(* run-once entry point (cli.py), as one state machine.                    *)
(*                                                                         *)
(* Threads and processes of the model:                                     *)
(*   - the polling thread of SchedulerService.start (variable loop);       *)
(*   - the trigger runtime's pool threads, one per dispatched job          *)
(*     instance (ex[<<name, slot>>]);                                      *)
(*   - one `run-once` command line process (ex[CliExec]);                  *)
(*   - the front ends that create tasks (cli.py add, the GUI dialog), each *)
(*     request one step that leaves its outcome in cmd;                    *)
(*   - other processes that add and remove tasks in the shared database.   *)
(* Every store operation is one transaction (Database.connect commits on   *)
(* exit), so each is one atomic step.                                      *)
(***************************************************************************)
EXTENDS Integers, Sequences, FiniteSets, TLC

VARIABLES
    tasks,          \* table tasks: a set of rows
    nextTaskId,     \* AUTOINCREMENT counter of tasks.id
    runs,           \* table runs: run id -> row
    nextRunId,      \* AUTOINCREMENT counter of runs.id
    now,            \* datetime.utcnow(), in half seconds (it advances in the
                    \* specifications that have the Tick action; in the others
                    \* all steps fall within one second)
    stop_event,     \* SchedulerService._stop_event
    scheduled_cron, \* SchedulerService._scheduled_cron: name -> cron
    jobs,           \* the BackgroundScheduler's job store: job id -> job
    schedRunning,   \* the BackgroundScheduler is started and not shut down
    loop,           \* position of the polling thread inside start()
    startRaised,    \* an exception is propagating out of start()
    ex,             \* executor contexts: position and locals of each call chain
    hist,           \* history (ghost) counters used by the properties only
    cmd,            \* the last task-creation request of a front end and its outcome
    reply,          \* the last call of a Database method by a client and what it returned
    upd,            \* update_repository: its arguments and environment, its
                    \* position and the git commands it has executed
    catalog         \* script_store.py: the scripts in the JSON file and the
                    \* last call of ScriptRepository with its outcome

vars == <<tasks, nextTaskId, runs, nextRunId, now, stop_event, scheduled_cron,
          jobs, schedRunning, loop, startRaised, ex, hist, cmd, reply, upd,
          catalog>>

-----------------------------------------------------------------------------
(* Bounds of the model *)

MaxTaskId == 2      \* tasks ever added
MaxRuns == 2        \* run rows ever inserted
MaxFires == 2       \* trigger fires ever delivered
PoolSlots == 2      \* pool threads available to one job id
MaxTime == 2        \* half seconds the clock advances
MaxScripts == 3     \* entries the script catalog holds

-----------------------------------------------------------------------------
(* Values *)

\* Optional[T]: None is the empty sequence, a value v is <<v>>.
None == <<>>
Some(v) == <<v>>
Get(o) == o[1]

Names == {"a", "b"}

\* sys.executable of the process that runs the executor
SysExecutable == "/usr/bin/python3"

\* The executables present on the file system when a run is launched.
ExistingExecutables == {SysExecutable}

\* A cron expression is the sequence of its whitespace-separated fields.
CronMidnight == <<"0", "0", "*", "*", "*">>
CronEvery5 == <<"*/5", "*", "*", "*", "*">>

\* The keyword arguments callers pass to Database.add_task besides the name.
TaskInputs ==
    { [script_path |-> "/srv/job.py", cron |-> CronMidnight,
       python_executable |-> None, working_directory |-> None],
      [script_path |-> "/srv/alt.py", cron |-> CronEvery5,
       python_executable |-> Some("/opt/gone/python"),
       working_directory |-> Some("/srv")] }

\* The input of a task that runs with the interpreter of the service.
PlainInput == CHOOSE inp \in TaskInputs : inp.python_executable = None

\* The input of a task whose interpreter is given (and is missing).
OwnInterpreterInput == CHOOSE inp \in TaskInputs : inp.python_executable # None

\* One input for each name: a runs, b fails at launch.
InputOf(n) == IF n = "a" THEN PlainInput ELSE OwnInterpreterInput

\* Exit codes a finished subprocess reports.
ExitCodes == {0, 1}

Slots == 1..PoolSlots
SchedExecs == Names \X Slots
CliExec == <<"run-once", 0>>
Executors == SchedExecs \cup {CliExec}

IdleExec ==
    [pc |-> "idle", name |-> "", task |-> None, run_id |-> None,
     exit_code |-> None, exc |-> None, started_at |-> None]

\* Task names of the front-end requests: two spellings of one name.
StoreNames == {"demo", "DEMO"}

\* Paths that exist on the file system when a front end checks a request.
ExistingPaths == {"/srv/job.py", "/srv/alt.py", "/srv", SysExecutable}

\* Expressions CronTrigger.from_crontab rejects: a minute out of range and
\* an expression of four fields.
CronMinute61 == <<"61", "*", "*", "*", "*">>
CronFourFields == <<"0", "0", "*", "*">>

\* The values each of the five crontab fields accepts (minute, hour, day,
\* month, day of week).
FieldRange == <<0..59, 0..23, 1..31, 1..12, 0..6>>

\* The field texts the trigger's field expressions match ...
Recognised(text) == text \in {"*", "*/5", "0", "61"}

\* ... and the numbers such a text names, which must lie in the field's range.
TokenValues(text) ==
    IF text = "0" THEN {0} ELSE IF text = "61" THEN {61} ELSE {}

\* CronTrigger.from_crontab(expr) returns a trigger (it raises ValueError
\* for a wrong number of fields, an unrecognised field text or a value out
\* of the field's range).
Parses(expr) ==
    /\ Len(expr) = 5
    /\ \A i \in 1..5 :
          Recognised(expr[i]) /\ TokenValues(expr[i]) \subseteq FieldRange[i]

\* A request as a front end (cli.py add, the GUI's new-task dialog) receives it.
Request(name, script, cron, python, working_dir) ==
    [name |-> name, script |-> script, cron |-> cron, python |-> python,
     working_dir |-> working_dir]

FrontEndRequests ==
    { Request("demo", "/srv/job.py", CronMidnight, None, None),
      Request("DEMO", "/srv/job.py", CronMidnight, None, None),
      Request("demo", "/srv/alt.py", CronEvery5, Some(SysExecutable), Some("/srv")),
      Request("demo", "/srv/job.py", CronMinute61, None, None),
      Request("demo", "/srv/job.py", CronFourFields, None, None),
      Request("demo", "/srv/missing.py", CronMidnight, None, None),
      Request("demo", "/srv/job.py", CronMidnight, Some("/opt/gone/python"), None),
      Request("demo", "/srv/job.py", CronMidnight, None, Some("/srv/gone")) }

\* What other code hands to Database.add_task directly: the store takes the
\* cron text as it is given.
DirectInputs ==
    TaskInputs \cup
    { [script_path |-> "/srv/job.py", cron |-> CronMinute61,
       python_executable |-> None, working_directory |-> None] }

\* No front-end request has been made yet.
NoCommand == [via |-> "", request |-> None, exit_code |-> None, error |-> ""]

\* No call of a Database method has been made by the client yet.  args is
\* the record of the call's arguments, value the sequence holding what it
\* returned (empty for None), turn the parity of the number of calls made.
NoReply == [op |-> "", args |-> <<>>, value |-> <<>>, raised |-> "", turn |-> 0]

\* The limit arguments given to Database.recent_runs (10 is its default).
Limits == {1, 10}

\* The arguments and the environment of a call of update_repository.
Branches == {"main", "dev"}
RepoDirs == {"/srv/app", "~/app"}

\* What the environment answers: shutil.which finds git, the directory and
\* its .git exist, git status --porcelain prints changes, and the git
\* subcommand that exits with a non-zero status ("" when none does).
Environments ==
    [git : BOOLEAN, exists : BOOLEAN, dotgit : BOOLEAN, dirty : BOOLEAN,
     fails : {"", "status", "fetch", "checkout", "pull", "reset"}]

\* update_repository has not been called.
UpdIdle ==
    [pc |-> "idle", repo_dir |-> "", branch |-> "", force |-> FALSE,
     env |-> [git |-> TRUE, exists |-> TRUE, dotgit |-> TRUE, dirty |-> FALSE,
              fails |-> ""],
     executed |-> <<>>, raised |-> ""]

\* The scripts a user enters in the catalog: names in several spellings
\* and two commands.
ScriptNames == {"demo", "DEMO", "Demo", "job", "JOB", "x"}
ScriptCommands == {"echo 1", "echo 2"}

\* Script(name=..., command=..., description="")
Script(name, command) == [name |-> name, command |-> command, description |-> ""]

Scripts == {Script(n, c) : n \in ScriptNames, c \in ScriptCommands}

\* ScriptRepository.__init__ on a path with no file: the file holds "[]".
EmptyCatalog ==
    [scripts |-> <<>>, op |-> "", arg |-> "", raised |-> "", turn |-> 0]

-----------------------------------------------------------------------------
(* db.py: the task store *)

\* Database.connect opens the connection without PRAGMA foreign_keys = ON;
\* SQLite then does not enforce REFERENCES ... ON DELETE CASCADE.
ForeignKeysEnabled == FALSE

\* Faulty variant of get_task: the WHERE clause is lost, any row is returned.
get_task_any(ts, name) ==
    IF ts # {} THEN Some(CHOOSE t \in ts : TRUE) ELSE None

\* SELECT * FROM tasks WHERE name = ? ... fetchone()
get_task(ts, name) ==
    IF \E t \in ts : t.name = name
    THEN Some(CHOOSE t \in ts : t.name = name)
    ELSE None

\* The sequences that hold each element of S once.
Orderings(S) ==
    {o \in [1..Cardinality(S) -> S] : \A i, j \in DOMAIN o : i # j => o[i] # o[j]}

\* SELECT * FROM tasks ORDER BY name, as the dict the scheduler builds from it
list_tasks(ts) == [n \in {t.name : t \in ts} |-> CHOOSE t \in ts : t.name = n]

\* datetime.isoformat(timespec="seconds"): the clock counts half seconds,
\* the stored text keeps whole seconds.
Seconds(t) == t \div 2

\* INSERT INTO tasks ...: the row Database.add_task inserts
NewTaskRow(id, name, inp, at) ==
    [id |-> id, name |-> name, script_path |-> inp.script_path,
     cron |-> inp.cron, python_executable |-> inp.python_executable,
     working_directory |-> inp.working_directory,
     created_at |-> Seconds(at)]

\* name TEXT UNIQUE NOT NULL: the insert violates the constraint
NameTaken(ts, name) == \E t \in ts : t.name = name

\* Faulty variant of remove_task: the WHERE clause is lost.
remove_task_all(ts, name) == {}

\* DELETE FROM tasks WHERE name = ?
remove_task(ts, name) == {t \in ts : t.name # name}

\* The runs rows left after tasks rows were deleted (ON DELETE CASCADE acts
\* only when the connection enforces foreign keys).
CascadeRuns(rs, ts) ==
    IF ForeignKeysEnabled
    THEN [i \in {j \in DOMAIN rs : \E t \in ts : t.id = rs[j].task_id} |-> rs[i]]
    ELSE rs

\* Faulty variant of record_run_start: the insert is never committed.
record_run_start_lost(rs, id, task_id, started_at, stdout_path, stderr_path) == rs

\* INSERT INTO runs (task_id, started_at, status, stdout_path, stderr_path, message)
record_run_start(rs, id, task_id, started_at, stdout_path, stderr_path) ==
    [i \in DOMAIN rs \cup {id} |->
        IF i = id
        THEN [task_id |-> task_id, started_at |-> Seconds(started_at),
              finished_at |-> None, status |-> "running", exit_code |-> None,
              stdout_path |-> stdout_path, stderr_path |-> stderr_path,
              message |-> None]
        ELSE rs[i]]

\* Faulty variant of record_run_end: the WHERE clause is lost, every row is
\* updated.
record_run_end_all(rs, run_id, finished_at, status, exit_code, message) ==
    [i \in DOMAIN rs |->
        [rs[i] EXCEPT !.finished_at = Some(Seconds(finished_at)),
                      !.status = status,
                      !.exit_code = exit_code,
                      !.message = IF message # None THEN message ELSE @]]

\* UPDATE runs SET finished_at, status, exit_code, message = COALESCE(?, message)
\*  WHERE id = ?
record_run_end(rs, run_id, finished_at, status, exit_code, message) ==
    [i \in DOMAIN rs |->
        IF i = run_id
        THEN [rs[i] EXCEPT !.finished_at = Some(Seconds(finished_at)),
                           !.status = status,
                           !.exit_code = exit_code,
                           !.message = IF message # None THEN message ELSE @]
        ELSE rs[i]]

-----------------------------------------------------------------------------
(* Initial state: the database holds no rows, the service is constructed   *)
(* and start() has not run yet.                                            *)

Init ==
    /\ tasks = {}
    /\ nextTaskId = 1
    /\ runs = <<>>
    /\ nextRunId = 1
    /\ now = 0
    /\ stop_event = FALSE
    /\ scheduled_cron = <<>>
    /\ jobs = <<>>
    /\ schedRunning = FALSE
    /\ loop = "init"
    /\ startRaised = FALSE
    /\ ex = [e \in Executors |-> IdleExec]
    /\ hist = [fires |-> [n \in Names |-> 0],
               idle |-> [n \in Names |-> 0],
               started |-> [n \in Names |-> 0],
               pass_failed |-> FALSE]
    /\ cmd = NoCommand
    /\ reply = NoReply
    /\ upd = UpdIdle
    /\ catalog = EmptyCatalog

-----------------------------------------------------------------------------
(* Other processes (CLI add/remove, GUI) changing the shared database *)

\* The largest of a non-empty set of numbers.
Max(S) == CHOOSE m \in S : \A k \in S : k <= m

\* Faulty variant of AddTask: ids as INTEGER PRIMARY KEY without
\* AUTOINCREMENT gives them, one more than the largest id in the table.
AddTaskReusingId(name, inp) ==
    /\ nextTaskId <= MaxTaskId
    /\ IF NameTaken(tasks, name)
       THEN UNCHANGED <<tasks, nextTaskId>>
       ELSE /\ tasks' = tasks \cup
                  {NewTaskRow(IF tasks = {} THEN 1 ELSE Max({t.id : t \in tasks}) + 1,
                              name, inp, now)}
            /\ nextTaskId' = nextTaskId + 1
    /\ UNCHANGED <<runs, nextRunId, now, stop_event, scheduled_cron, jobs,
                   schedRunning, loop, startRaised, ex, hist, cmd, reply, upd, catalog>>

\* Database.add_task: the INSERT succeeds and takes the next id, or the
\* UNIQUE constraint on name rejects it and nothing is stored.
AddTask(name, inp) ==
    /\ nextTaskId <= MaxTaskId
    /\ IF NameTaken(tasks, name)
       THEN UNCHANGED <<tasks, nextTaskId>>
       ELSE /\ tasks' = tasks \cup {NewTaskRow(nextTaskId, name, inp, now)}
            /\ nextTaskId' = nextTaskId + 1
    /\ UNCHANGED <<runs, nextRunId, now, stop_event, scheduled_cron, jobs,
                   schedRunning, loop, startRaised, ex, hist, cmd, reply, upd, catalog>>

\* Database.remove_task
RemoveTask(name) ==
    /\ \E t \in tasks : t.name = name
    /\ tasks' = remove_task(tasks, name)
    /\ runs' = CascadeRuns(runs, tasks')
    /\ UNCHANGED <<nextTaskId, nextRunId, now, stop_event, scheduled_cron, jobs,
                   schedRunning, loop, startRaised, ex, hist, cmd, reply, upd, catalog>>

-----------------------------------------------------------------------------
(* cli.py add and gui.py _create_task: the front ends that create tasks *)

\* Faulty variant of FrontEndCheck: the cron expression is not validated.
FrontEndCheckSkipsCron(req) ==
    IF req.script \notin ExistingPaths THEN "script"
    ELSE IF req.python # None /\ Get(req.python) \notin ExistingPaths
         THEN "python"
    ELSE IF req.working_dir # None /\ Get(req.working_dir) \notin ExistingPaths
         THEN "working_dir"
    ELSE "ok"

\* cli.py add_task lines 73-93, gui.py _create_task lines 200-219: the
\* checks made before the store is called, in this order; the result names
\* the first check that fails.
FrontEndCheck(req) ==
    IF req.script \notin ExistingPaths THEN "script"
    ELSE IF ~Parses(req.cron) THEN "cron"
    ELSE IF req.python # None /\ Get(req.python) \notin ExistingPaths
         THEN "python"
    ELSE IF req.working_dir # None /\ Get(req.working_dir) \notin ExistingPaths
         THEN "working_dir"
    ELSE "ok"

\* The keyword arguments a front end passes to Database.add_task.
RequestInput(req) ==
    [script_path |-> req.script, cron |-> req.cron,
     python_executable |-> req.python, working_directory |-> req.working_dir]

\* The outcome a front end leaves: the exit status of the command (the GUI
\* has none) and the error it reported ("" when it reported none).
Outcome(via, req, exit_code, error) ==
    [via |-> via, request |-> Some(req), exit_code |-> exit_code,
     error |-> error]

\* cli.py add_task: a failed check ends the command with typer.Exit(code=1);
\* the IntegrityError Database.add_task raises for a name in use is not
\* caught and ends the process with status 1; otherwise the row is stored
\* and the command ends with status 0.
CliAddTask(req) ==
    /\ nextTaskId <= MaxTaskId
    /\ LET check == FrontEndCheck(req) IN
       IF check # "ok"
       THEN /\ cmd' = Outcome("cli", req, Some(1), check)
            /\ UNCHANGED <<tasks, nextTaskId>>
       ELSE IF NameTaken(tasks, req.name)
       THEN /\ cmd' = Outcome("cli", req, Some(1), "IntegrityError")
            /\ UNCHANGED <<tasks, nextTaskId>>
       ELSE /\ tasks' = tasks \cup {NewTaskRow(nextTaskId, req.name,
                                               RequestInput(req), now)}
            /\ nextTaskId' = nextTaskId + 1
            /\ cmd' = Outcome("cli", req, Some(0), "")
    /\ UNCHANGED <<runs, nextRunId, now, stop_event, scheduled_cron, jobs,
                   schedRunning, loop, startRaised, ex, hist, reply, upd, catalog>>

\* gui.py _create_task: name, script and cron are required; the same checks
\* follow; an exception of Database.add_task is caught and shown; otherwise
\* the row is stored and the dialog closes.
GuiCreateTask(req) ==
    /\ nextTaskId <= MaxTaskId
    /\ LET check == FrontEndCheck(req) IN
       IF req.name = "" \/ req.script = "" \/ req.cron = <<>>
       THEN /\ cmd' = Outcome("gui", req, None, "required")
            /\ UNCHANGED <<tasks, nextTaskId>>
       ELSE IF check # "ok"
       THEN /\ cmd' = Outcome("gui", req, None, check)
            /\ UNCHANGED <<tasks, nextTaskId>>
       ELSE IF NameTaken(tasks, req.name)
       THEN /\ cmd' = Outcome("gui", req, None, "IntegrityError")
            /\ UNCHANGED <<tasks, nextTaskId>>
       ELSE /\ tasks' = tasks \cup {NewTaskRow(nextTaskId, req.name,
                                               RequestInput(req), now)}
            /\ nextTaskId' = nextTaskId + 1
            /\ cmd' = Outcome("gui", req, None, "")
    /\ UNCHANGED <<runs, nextRunId, now, stop_event, scheduled_cron, jobs,
                   schedRunning, loop, startRaised, ex, hist, reply, upd, catalog>>

-----------------------------------------------------------------------------
(* runner.py: run_task, entered with ex[e].task bound to the caller's Task *)

IsSched(e) == e \in SchedExecs

\* executable = str(task.python_executable) if task.python_executable else sys.executable
Executable(task) ==
    IF task.python_executable # None THEN Get(task.python_executable)
    ELSE SysExecutable

\* logs_dir / f"{timestamp}.stdout.log", logs_dir = data_dir / "logs" / task.name
LogPath(task, timestamp, stream) == <<"logs", task.name, timestamp, stream>>

\* str(exc) of the OSError subprocess.Popen raises for a missing executable
LaunchErrorMessage == "[Errno 2] No such file or directory"

\* Faulty variant of StatusOf: every non-negative exit code counts as success.
StatusOfNonNegative(exit_code) == IF exit_code >= 0 THEN "success" ELSE "failed"

\* status = "success" if exit_code == 0 else "failed"
StatusOf(exit_code) == IF exit_code = 0 THEN "success" ELSE "failed"

\* The runs table accepts an insert for task_id (always, unless the
\* connection enforces the foreign key).
InsertAccepted(ts, task_id) ==
    ~ForeignKeysEnabled \/ \E t \in ts : t.id = task_id

\* run_task lines 21-32: log paths, then database.record_run_start
RecordRunStart(e) ==
    /\ ex[e].pc = "run_start"
    /\ LET task == Get(ex[e].task) IN
       IF InsertAccepted(tasks, task.id)
       THEN /\ runs' = record_run_start(runs, nextRunId, task.id, now,
                                        LogPath(task, Seconds(now), "stdout.log"),
                                        LogPath(task, Seconds(now), "stderr.log"))
            /\ nextRunId' = nextRunId + 1
            /\ ex' = [ex EXCEPT ![e].pc = "popen", ![e].run_id = Some(nextRunId)]
            /\ hist' = IF IsSched(e)
                       THEN [hist EXCEPT !.started[e[1]] = @ + 1]
                       ELSE hist
       ELSE /\ ex' = [ex EXCEPT ![e].pc = "raised",
                                ![e].exc = Some("FOREIGN KEY constraint failed")]
            /\ UNCHANGED <<runs, nextRunId, hist>>
    /\ UNCHANGED <<tasks, nextTaskId, now, stop_event, scheduled_cron, jobs,
                   schedRunning, loop, startRaised, cmd, reply, upd, catalog>>

\* run_task lines 21-29, seen step by step: the call reads the clock for
\* the log names and for the started_at argument ...
ReadClock(e) ==
    /\ ex[e].pc = "run_start"
    /\ ex' = [ex EXCEPT ![e].pc = "insert", ![e].started_at = Some(now)]
    /\ UNCHANGED <<tasks, nextTaskId, runs, nextRunId, now, stop_event,
                   scheduled_cron, jobs, schedRunning, loop, startRaised,
                   hist, cmd, reply, upd, catalog>>

\* ... and, lines 27-32, database.record_run_start inserts the row with the
\* time that was read.
InsertRunStart(e) ==
    /\ ex[e].pc = "insert"
    /\ LET task == Get(ex[e].task)
           read == Get(ex[e].started_at)
       IN
       IF InsertAccepted(tasks, task.id)
       THEN /\ runs' = record_run_start(runs, nextRunId, task.id, read,
                                        LogPath(task, Seconds(read), "stdout.log"),
                                        LogPath(task, Seconds(read), "stderr.log"))
            /\ nextRunId' = nextRunId + 1
            /\ ex' = [ex EXCEPT ![e].pc = "popen", ![e].run_id = Some(nextRunId)]
            /\ hist' = IF IsSched(e)
                       THEN [hist EXCEPT !.started[e[1]] = @ + 1]
                       ELSE hist
       ELSE /\ ex' = [ex EXCEPT ![e].pc = "raised",
                                ![e].exc = Some("FOREIGN KEY constraint failed")]
            /\ UNCHANGED <<runs, nextRunId, hist>>
    /\ UNCHANGED <<tasks, nextTaskId, now, stop_event, scheduled_cron, jobs,
                   schedRunning, loop, startRaised, cmd, reply, upd, catalog>>

\* Faulty variant of LaunchFailureRow: the except block only re-raises.
LaunchFailureRowSkipped(rs, run_id, finished_at, message) == rs

\* run_task lines 49-57: what the except block writes before it raises
\* TaskExecutionError(str(exc))
LaunchFailureRow(rs, run_id, finished_at, message) ==
    record_run_end(rs, run_id, finished_at, "failed", None, Some(message))

\* run_task lines 38-57: open the log files and subprocess.Popen.  The
\* subprocess starts, or Popen raises, the except block records the failure
\* and raises TaskExecutionError.
Popen(e) ==
    /\ ex[e].pc = "popen"
    /\ IF Executable(Get(ex[e].task)) \in ExistingExecutables
       THEN /\ ex' = [ex EXCEPT ![e].pc = "wait"]
            /\ UNCHANGED runs
       ELSE /\ runs' = LaunchFailureRow(runs, Get(ex[e].run_id), now,
                                        LaunchErrorMessage)
            /\ ex' = [ex EXCEPT ![e].pc = "raised",
                                ![e].exc = Some(LaunchErrorMessage)]
    /\ UNCHANGED <<tasks, nextTaskId, nextRunId, now, stop_event,
                   scheduled_cron, jobs, schedRunning, loop, startRaised, hist, cmd, reply, upd, catalog>>

\* run_task lines 48 and 59-66: process.wait() returns the exit code, the
\* end of the run is recorded and run_task returns.
RecordRunEnd(e) ==
    /\ ex[e].pc = "wait"
    /\ \E code \in ExitCodes :
        /\ runs' = record_run_end(runs, Get(ex[e].run_id), now,
                                  StatusOf(code), Some(code), None)
        /\ ex' = [ex EXCEPT ![e].pc = "returned", ![e].exit_code = Some(code)]
    /\ UNCHANGED <<tasks, nextTaskId, nextRunId, now, stop_event,
                   scheduled_cron, jobs, schedRunning, loop, startRaised, hist, cmd, reply, upd, catalog>>

-----------------------------------------------------------------------------
(* scheduler_service.py: triggers and fire dispatch *)

\* CronTrigger.from_crontab(expr): the five fields become the trigger's
\* minute, hour, day, month and day_of_week fields.
FromCrontab(expr) ==
    [minute |-> expr[1], hour |-> expr[2], day |-> expr[3],
     month |-> expr[4], day_of_week |-> expr[5]]

\* Faulty variant of MaxInstances: two concurrent instances are allowed.
MaxInstancesRaised == 1 + 1

\* _add_job: add_job(..., max_instances=1)
MaxInstances == 1

\* The job _add_job hands to scheduler.add_job(self._run_task_job, ...)
NewJob(task) ==
    [trigger |-> FromCrontab(task.cron), args |-> task.name,
     max_instances |-> MaxInstances]

\* Faulty variant of Instances: a running call is no longer counted once
\* its task has been removed from the store.
InstancesOfStoredTasks(n) ==
    Cardinality({s \in Slots :
        /\ ex[<<n, s>>].pc # "idle"
        /\ ex[<<n, s>>].task # None
        /\ Get(ex[<<n, s>>].task) \in tasks})

\* Faulty variant of Instances: running calls are counted over all job ids,
\* as if max_instances limited the scheduler as a whole.
InstancesAnyJob(n) == Cardinality({e \in SchedExecs : ex[e].pc # "idle"})

\* Running instances the trigger runtime counts for a job id: the calls of
\* the job function submitted to the pool that have not returned yet.
Instances(n) == Cardinality({s \in Slots : ex[<<n, s>>].pc # "idle"})

FreeSlot(n) == CHOOSE s \in Slots :
                   /\ ex[<<n, s>>].pc = "idle"
                   /\ \A r \in Slots : ex[<<n, r>>].pc = "idle" => s <= r

RECURSIVE SumOver(_, _)
SumOver(f, S) ==
    IF S = {} THEN 0
    ELSE LET x == CHOOSE y \in S : TRUE IN f[x] + SumOver(f, S \ {x})

TotalFires == SumOver(hist.fires, Names)

\* Run rows already inserted or owed to a call that is about to insert one.
RunsReserved ==
    (nextRunId - 1)
    + Cardinality({e \in Executors : ex[e].pc \in {"get_task", "run_start", "insert"}})

\* The trigger of job n fires.  The runtime submits the job function to its
\* pool unless max_instances calls of this job id are still running, in which
\* case the run time is skipped.
Fire(n) ==
    /\ schedRunning
    /\ n \in DOMAIN jobs
    /\ TotalFires < MaxFires
    /\ IF Instances(n) >= jobs[n].max_instances
       THEN /\ hist' = [hist EXCEPT !.fires[n] = @ + 1]
            /\ UNCHANGED ex
       ELSE /\ RunsReserved < MaxRuns
            /\ \E s \in Slots : ex[<<n, s>>].pc = "idle"
            /\ ex' = [ex EXCEPT ![<<n, FreeSlot(n)>>] =
                          [IdleExec EXCEPT !.pc = "get_task",
                                           !.name = jobs[n].args]]
            /\ hist' = [hist EXCEPT
                          !.fires[n] = @ + 1,
                          !.idle[n] = IF Instances(n) = 0 THEN @ + 1 ELSE @]
    /\ UNCHANGED <<tasks, nextTaskId, runs, nextRunId, now, stop_event,
                   scheduled_cron, jobs, schedRunning, loop, startRaised, cmd, reply, upd, catalog>>

\* _run_task_job lines 99-103 and run_once lines 194-199:
\* task = database.get_task(name); without a task the call ends here.
GetTask(e) ==
    /\ ex[e].pc = "get_task"
    /\ LET task == get_task(tasks, ex[e].name) IN
       IF task = None
       THEN ex' = [ex EXCEPT ![e] = IdleExec]
       ELSE ex' = [ex EXCEPT ![e].pc = "run_start", ![e].task = task]
    /\ UNCHANGED <<tasks, nextTaskId, runs, nextRunId, now, stop_event,
                   scheduled_cron, jobs, schedRunning, loop, startRaised, hist, cmd, reply, upd, catalog>>

\* Faulty variant of JobReturn: the job function drops its name from the
\* scheduled-cron map when it returns.
JobReturnDropsEntry(e) ==
    /\ IsSched(e)
    /\ ex[e].pc = "returned"
    /\ ex' = [ex EXCEPT ![e] = IdleExec]
    /\ scheduled_cron' = [n \in DOMAIN scheduled_cron \ {e[1]} |-> scheduled_cron[n]]
    /\ UNCHANGED <<tasks, nextTaskId, runs, nextRunId, now, stop_event,
                   jobs, schedRunning, loop, startRaised, hist, cmd, reply, upd, catalog>>

\* _run_task_job line 106: run_task returned, the job function returns.
JobReturn(e) ==
    /\ IsSched(e)
    /\ ex[e].pc = "returned"
    /\ ex' = [ex EXCEPT ![e] = IdleExec]
    /\ UNCHANGED <<tasks, nextTaskId, runs, nextRunId, now, stop_event,
                   scheduled_cron, jobs, schedRunning, loop, startRaised, hist, cmd, reply, upd, catalog>>

\* Faulty variant of HandleDispatchError: the handler unschedules the task.
HandleDispatchErrorUnschedules(js, n) ==
    [m \in DOMAIN js \ {n} |-> js[m]]

\* _run_task_job lines 107-108: the handler prints the error; what it
\* leaves of the job store.
HandleDispatchError(js, n) == js

\* _run_task_job lines 107-108: run_task raised, the except block catches it
\* and the job function returns.
JobExcept(e) ==
    /\ IsSched(e)
    /\ ex[e].pc = "raised"
    /\ ex' = [ex EXCEPT ![e] = IdleExec]
    /\ jobs' = HandleDispatchError(jobs, e[1])
    /\ UNCHANGED <<tasks, nextTaskId, runs, nextRunId, now, stop_event,
                   scheduled_cron, schedRunning, loop, startRaised, hist, cmd, reply, upd, catalog>>

-----------------------------------------------------------------------------
(* cli.py: run-once *)

\* run_once starts in a process of its own with the name argument.
RunOnce(n) ==
    /\ ex[CliExec].pc = "idle"
    /\ RunsReserved < MaxRuns
    /\ ex' = [ex EXCEPT ![CliExec] = [IdleExec EXCEPT !.pc = "get_task",
                                                      !.name = n]]
    /\ UNCHANGED <<tasks, nextTaskId, runs, nextRunId, now, stop_event,
                   scheduled_cron, jobs, schedRunning, loop, startRaised, hist, cmd, reply, upd, catalog>>

\* run_once line 200: run_task returned or raised; either way the command
\* ends (an exception is not caught and ends the process).
RunOnceExit ==
    /\ ex[CliExec].pc \in {"returned", "raised"}
    /\ ex' = [ex EXCEPT ![CliExec] = IdleExec]
    /\ UNCHANGED <<tasks, nextTaskId, runs, nextRunId, now, stop_event,
                   scheduled_cron, jobs, schedRunning, loop, startRaised, hist, cmd, reply, upd, catalog>>

-----------------------------------------------------------------------------
(* scheduler_service.py: the reconciliation pass and the polling loop *)

\* _synchronise_jobs lines 63-67: the map after the removal loop
CronAfterRemoval(sc, byName) ==
    [n \in {m \in DOMAIN sc : m \in DOMAIN byName} |-> sc[n]]

\* Faulty variant of JobsAfterRemoval: every installed job is removed.
JobsAfterRemovalAll(js, sc, byName) == <<>>

\* _synchronise_jobs lines 63-67: scheduler.remove_job(name) for each removed name
JobsAfterRemoval(js, sc, byName) ==
    [n \in {m \in DOMAIN js : ~(m \in DOMAIN sc /\ m \notin DOMAIN byName)} |-> js[n]]

\* _synchronise_jobs lines 70-81: the map after the add-or-update loop
CronAfterUpsert(sc, byName) ==
    [n \in DOMAIN sc \cup DOMAIN byName |->
        IF n \notin DOMAIN byName THEN sc[n]
        ELSE IF n \notin DOMAIN sc THEN byName[n].cron
        ELSE IF sc[n] # byName[n].cron THEN byName[n].cron
        ELSE sc[n]]

\* Faulty variant of JobsAfterUpsert: a changed expression is written to the
\* map but the installed trigger is not replaced.
JobsAfterUpsertNoReschedule(js, sc, byName) ==
    [n \in DOMAIN js \cup {m \in DOMAIN byName : m \notin DOMAIN sc} |->
        IF n \notin DOMAIN byName THEN js[n]
        ELSE IF n \notin DOMAIN sc THEN NewJob(byName[n])
        ELSE js[n]]

\* _synchronise_jobs lines 70-81: _add_job (replace_existing) for a name not
\* in the map, reschedule_job for a name whose cron changed
JobsAfterUpsert(js, sc, byName) ==
    [n \in DOMAIN js \cup {m \in DOMAIN byName : m \notin DOMAIN sc} |->
        IF n \notin DOMAIN byName THEN js[n]
        ELSE IF n \notin DOMAIN sc THEN NewJob(byName[n])
        ELSE IF sc[n] # byName[n].cron
             THEN [js[n] EXCEPT !.trigger = FromCrontab(byName[n].cron)]
        ELSE js[n]]

\* start lines 32-35: initialise the tables, start the trigger runtime,
\* install the signal handlers
Start ==
    /\ loop = "init"
    /\ schedRunning' = TRUE
    /\ loop' = "check"
    /\ UNCHANGED <<tasks, nextTaskId, runs, nextRunId, now, stop_event,
                   scheduled_cron, jobs, startRaised, ex, hist, cmd, reply, upd, catalog>>

\* start line 37: while not self._stop_event.is_set(), on entering the loop
LoopCheck ==
    /\ loop = "check"
    /\ loop' = IF stop_event THEN "shutdown" ELSE "sync"
    /\ UNCHANGED <<tasks, nextTaskId, runs, nextRunId, now, stop_event,
                   scheduled_cron, jobs, schedRunning, startRaised, ex, hist, cmd, reply, upd, catalog>>

\* ORDER BY name: the order list_tasks returns the names in (SQLite compares
\* TEXT bytewise, upper case before lower case).
NameOrder == <<"DEMO", "a", "b", "demo">>
Position(n) == CHOOSE i \in 1..Len(NameOrder) : NameOrder[i] = n

\* _synchronise_jobs lines 72-79: the names whose expression the add-or-update
\* loop hands to CronTrigger.from_crontab and that raise ValueError there
ParseFailures(sc, byName) ==
    {n \in DOMAIN byName :
        /\ n \notin DOMAIN sc \/ sc[n] # byName[n].cron
        /\ ~Parses(byName[n].cron)}

\* The part of the task list the add-or-update loop gets through before it
\* reaches name f.
Before(byName, f) ==
    [n \in {m \in DOMAIN byName : Position(m) < Position(f)} |-> byName[n]]

\* The names of S in the order of ORDER BY name.
SortedByName(S) ==
    CHOOSE o \in Orderings(S) :
        \A i, j \in DOMAIN o : i < j => Position(o[i]) < Position(o[j])

\* _synchronise_jobs lines 63-67: the calls of scheduler.remove_job the
\* removal loop makes (the order among them, that of the map's keys, is not
\* kept: they are calls on different job ids).
RemovalCalls(sc, byName) ==
    LET gone == SortedByName({n \in DOMAIN sc : n \notin DOMAIN byName})
    IN [i \in DOMAIN gone |-> [call |-> "remove_job", id |-> gone[i]]]

\* _synchronise_jobs lines 70-81: the calls the add-or-update loop makes, in
\* the order of the task list: scheduler.add_job (through _add_job) for a
\* name not in the map, scheduler.reschedule_job for a changed expression
UpsertCalls(sc, byName) ==
    LET due == SortedByName({n \in DOMAIN byName :
                                n \notin DOMAIN sc \/ sc[n] # byName[n].cron})
    IN [i \in DOMAIN due |->
          IF due[i] \notin DOMAIN sc
          THEN [call |-> "add_job", id |-> due[i], job |-> NewJob(byName[due[i]])]
          ELSE [call |-> "reschedule_job", id |-> due[i],
                trigger |-> FromCrontab(byName[due[i]].cron)]]

\* Faulty variant of PassCalls: the add-or-update loop runs first.
PassCallsUpsertFirst(sc, byName) ==
    UpsertCalls(CronAfterRemoval(sc, byName), byName) \o RemovalCalls(sc, byName)

\* _synchronise_jobs lines 63-81: the calls on the scheduler one pass makes
PassCalls(sc, byName) ==
    RemovalCalls(sc, byName) \o UpsertCalls(CronAfterRemoval(sc, byName), byName)

\* scheduler.remove_job(id), scheduler.add_job(..., id=, replace_existing=True)
\* and scheduler.reschedule_job(id, trigger=) on the installed jobs
ApplyCall(js, c) ==
    IF c.call = "remove_job"
    THEN [n \in DOMAIN js \ {c.id} |-> js[n]]
    ELSE IF c.call = "add_job"
    THEN [n \in DOMAIN js \cup {c.id} |-> IF n = c.id THEN c.job ELSE js[n]]
    ELSE [n \in DOMAIN js |->
            IF n = c.id THEN [js[n] EXCEPT !.trigger = c.trigger] ELSE js[n]]

RECURSIVE ApplyCalls(_, _)
ApplyCalls(js, calls) ==
    IF calls = <<>> THEN js
    ELSE ApplyCalls(ApplyCall(js, Head(calls)), Tail(calls))

\* start line 38: one whole pass of _synchronise_jobs
SynchroniseJobs ==
    /\ loop = "sync"
    /\ LET byName == list_tasks(tasks)
           sc1 == CronAfterRemoval(scheduled_cron, byName)
           js1 == JobsAfterRemoval(jobs, scheduled_cron, byName)
       IN /\ ParseFailures(sc1, byName) = {}
          /\ scheduled_cron' = CronAfterUpsert(sc1, byName)
          /\ jobs' = JobsAfterUpsert(js1, sc1, byName)
    /\ loop' = "wait"
    /\ UNCHANGED <<tasks, nextTaskId, runs, nextRunId, now, stop_event,
                   schedRunning, startRaised, ex, hist, cmd, reply, upd, catalog>>

\* start line 38 with a stored expression that does not parse: the removal
\* loop has run, the add-or-update loop has handled the names before the
\* first one whose expression from_crontab rejects (line 79 or 87), the
\* ValueError leaves _synchronise_jobs and start()'s while loop.
SynchroniseRaises ==
    /\ loop = "sync"
    /\ LET byName == list_tasks(tasks)
           sc1 == CronAfterRemoval(scheduled_cron, byName)
           js1 == JobsAfterRemoval(jobs, scheduled_cron, byName)
           failing == ParseFailures(sc1, byName)
       IN /\ failing # {}
          /\ LET f == CHOOSE n \in failing :
                         \A m \in failing : Position(n) <= Position(m)
                 done == Before(byName, f)
             IN /\ scheduled_cron' = CronAfterUpsert(sc1, done)
                /\ jobs' = JobsAfterUpsert(js1, sc1, done)
    /\ startRaised' = TRUE
    /\ loop' = "shutdown"
    /\ UNCHANGED <<tasks, nextTaskId, runs, nextRunId, now, stop_event,
                   schedRunning, ex, hist, cmd, reply, upd, catalog>>

\* start line 38 with the store unavailable: database.list_tasks() raises
\* (sqlite3.OperationalError) on line 60, nothing in start() catches it, the
\* while loop is left and control passes to the finally block.
SynchroniseFails ==
    /\ loop = "sync"
    /\ startRaised' = TRUE
    /\ loop' = "shutdown"
    /\ hist' = [hist EXCEPT !.pass_failed = TRUE]
    /\ UNCHANGED <<tasks, nextTaskId, runs, nextRunId, now, stop_event,
                   scheduled_cron, jobs, schedRunning, ex, cmd, reply, upd, catalog>>

\* Faulty variant of WaitReturns: the while condition is not evaluated, the
\* next pass follows whatever the stop flag says.
WaitReturnsIgnoresStop ==
    /\ loop = "wait"
    /\ loop' = "sync"
    /\ UNCHANGED <<tasks, nextTaskId, runs, nextRunId, now, stop_event,
                   scheduled_cron, jobs, schedRunning, startRaised, ex, hist, cmd, reply, upd, catalog>>

\* start lines 39 and 37: self._stop_event.wait(refresh_interval) returns, on
\* the timeout or because the event was set, and the while condition is
\* evaluated again
WaitReturns ==
    /\ loop = "wait"
    /\ loop' = IF stop_event THEN "shutdown" ELSE "sync"
    /\ UNCHANGED <<tasks, nextTaskId, runs, nextRunId, now, stop_event,
                   scheduled_cron, jobs, schedRunning, startRaised, ex, hist, cmd, reply, upd, catalog>>

\* start line 41: scheduler.shutdown(wait=True) stops the trigger runtime ...
Shutdown ==
    /\ loop = "shutdown"
    /\ schedRunning' = FALSE
    /\ loop' = "joining"
    /\ UNCHANGED <<tasks, nextTaskId, runs, nextRunId, now, stop_event,
                   scheduled_cron, jobs, startRaised, ex, hist, cmd, reply, upd, catalog>>

\* Faulty variant of ShutdownJoined: shutdown(wait=False), start() returns
\* without waiting for the job functions.
ShutdownNotJoined ==
    /\ loop = "joining"
    /\ loop' = "stopped"
    /\ UNCHANGED <<tasks, nextTaskId, runs, nextRunId, now, stop_event,
                   scheduled_cron, jobs, schedRunning, startRaised, ex, hist, cmd, reply, upd, catalog>>

\* ... and returns once every submitted job function has returned; start()
\* then returns (or lets the pending exception out).
ShutdownJoined ==
    /\ loop = "joining"
    /\ \A e \in SchedExecs : ex[e].pc = "idle"
    /\ loop' = "stopped"
    /\ UNCHANGED <<tasks, nextTaskId, runs, nextRunId, now, stop_event,
                   scheduled_cron, jobs, schedRunning, startRaised, ex, hist, cmd, reply, upd, catalog>>

\* stop / _handle_signal: self._stop_event.set()
Stop ==
    /\ ~stop_event
    /\ stop_event' = TRUE
    /\ UNCHANGED <<tasks, nextTaskId, runs, nextRunId, now, scheduled_cron,
                   jobs, schedRunning, loop, startRaised, ex, hist, cmd, reply, upd, catalog>>

-----------------------------------------------------------------------------
(* The service process dies *)

\* The process running start() is killed (SIGKILL, power loss): its threads
\* and the calls of run_task in them end where they are, no finally block or
\* handler runs, the triggers and the job store, which live in memory, are
\* gone.  The database file keeps what was committed.  start() can then be
\* run by a new process.
Crash ==
    /\ loop \notin {"init", "stopped"}
    /\ ex' = [e \in Executors |-> IF IsSched(e) THEN IdleExec ELSE ex[e]]
    /\ jobs' = <<>>
    /\ scheduled_cron' = <<>>
    /\ schedRunning' = FALSE
    /\ stop_event' = FALSE
    /\ startRaised' = FALSE
    /\ loop' = "init"
    /\ UNCHANGED <<tasks, nextTaskId, runs, nextRunId, now, hist, cmd, reply, upd, catalog>>

-----------------------------------------------------------------------------
(* db.py: the methods of Database as a client calls them, with what they  *)
(* return                                                                 *)

\* The wall clock advances by half a second.
Tick ==
    /\ now < MaxTime
    /\ now' = now + 1
    /\ UNCHANGED <<tasks, nextTaskId, runs, nextRunId, stop_event,
                   scheduled_cron, jobs, schedRunning, loop, startRaised, ex,
                   hist, cmd, reply, upd, catalog>>

\* What a call leaves in reply.
Reply(op, args, value, raised) ==
    [op |-> op, args |-> args, value |-> value, raised |-> raised,
     turn |-> 1 - reply.turn]

\* The frame of a call that only reads the database or changes its rows.
Unchanged_service ==
    UNCHANGED <<now, stop_event, scheduled_cron, jobs, schedRunning, loop,
                startRaised, ex, hist, cmd, upd, catalog>>

\* SELECT * FROM tasks ORDER BY name ... fetchall(): the rows as a list
list_tasks_rows(ts) ==
    CHOOSE o \in Orderings(ts) :
        \A i, j \in DOMAIN o : i < j => Position(o[i].name) < Position(o[j].name)

\* Faulty variant of TaskRunRow: the joined name column is not read.
TaskRunRowUnnamed(rs, ts, i) ==
    [id |-> i, task_id |-> rs[i].task_id, task_name |-> None,
     started_at |-> rs[i].started_at, finished_at |-> rs[i].finished_at,
     status |-> rs[i].status, exit_code |-> rs[i].exit_code,
     message |-> rs[i].message]

\* _row_to_run on a row of runs JOIN tasks: the run with its task's name
TaskRunRow(rs, ts, i) ==
    [id |-> i, task_id |-> rs[i].task_id,
     task_name |-> Some((CHOOSE t \in ts : t.id = rs[i].task_id).name),
     started_at |-> rs[i].started_at, finished_at |-> rs[i].finished_at,
     status |-> rs[i].status, exit_code |-> rs[i].exit_code,
     message |-> rs[i].message]

\* runs JOIN tasks ON tasks.id = runs.task_id [WHERE tasks.name = ?]: the
\* ids of the runs selected.  `if task_name:` adds the WHERE clause for a
\* name that is neither None nor empty.
SelectedRuns(rs, ts, task_name) ==
    {i \in DOMAIN rs :
        \E t \in ts : /\ t.id = rs[i].task_id
                      /\ (task_name = None \/ Get(task_name) = ""
                            \/ t.name = Get(task_name))}

\* ORDER BY runs.started_at DESC: the orders the statement allows.  Rows
\* with equal started_at come in an order SQL leaves open.
StartedDescending(rs, S) ==
    {o \in Orderings(S) :
        \A i, j \in DOMAIN o : i < j => rs[o[i]].started_at >= rs[o[j]].started_at}

\* LIMIT ?
Limit(o, limit) == SubSeq(o, 1, IF Len(o) < limit THEN Len(o) ELSE limit)

\* Database.recent_runs: the lists it can return
recent_runs(rs, ts, limit, task_name) ==
    {[p \in DOMAIN Limit(o, limit) |-> TaskRunRow(rs, ts, o[p])] :
        o \in StartedDescending(rs, SelectedRuns(rs, ts, task_name))}

\* Database.add_task: the inserted row read back by get_task_by_id, or
\* sqlite3.IntegrityError from the UNIQUE constraint
ApiAddTask(name, inp) ==
    /\ nextTaskId <= MaxTaskId
    /\ IF NameTaken(tasks, name)
       THEN /\ reply' = Reply("add_task", [name |-> name, cron |-> inp.cron],
                              <<>>, "IntegrityError")
            /\ UNCHANGED <<tasks, nextTaskId>>
       ELSE /\ tasks' = tasks \cup {NewTaskRow(nextTaskId, name, inp, now)}
            /\ nextTaskId' = nextTaskId + 1
            /\ reply' = Reply("add_task", [name |-> name, cron |-> inp.cron],
                              <<CHOOSE t \in tasks' : t.id = nextTaskId>>, "")
    /\ UNCHANGED <<runs, nextRunId>>
    /\ Unchanged_service

\* Database.get_task
ApiGetTask(name) ==
    /\ reply' = Reply("get_task", [name |-> name], get_task(tasks, name), "")
    /\ UNCHANGED <<tasks, nextTaskId, runs, nextRunId>>
    /\ Unchanged_service

\* Database.list_tasks
ApiListTasks ==
    /\ reply' = Reply("list_tasks", <<>>, list_tasks_rows(tasks), "")
    /\ UNCHANGED <<tasks, nextTaskId, runs, nextRunId>>
    /\ Unchanged_service

\* Database.remove_task: removed = cursor.rowcount > 0
ApiRemoveTask(name) ==
    /\ tasks' = remove_task(tasks, name)
    /\ runs' = CascadeRuns(runs, tasks')
    /\ reply' = Reply("remove_task", [name |-> name],
                      <<Cardinality(tasks) > Cardinality(tasks')>>, "")
    /\ UNCHANGED <<nextTaskId, nextRunId>>
    /\ Unchanged_service

\* Database.record_run_start called with the clock's time: returns lastrowid
ApiRecordRunStart(task_id) ==
    /\ nextRunId <= MaxRuns
    /\ IF InsertAccepted(tasks, task_id)
       THEN /\ runs' = record_run_start(runs, nextRunId, task_id, now, None, None)
            /\ nextRunId' = nextRunId + 1
            /\ reply' = Reply("record_run_start", [task_id |-> task_id],
                              <<nextRunId>>, "")
       ELSE /\ reply' = Reply("record_run_start", [task_id |-> task_id],
                              <<>>, "IntegrityError")
            /\ UNCHANGED <<runs, nextRunId>>
    /\ UNCHANGED <<tasks, nextTaskId>>
    /\ Unchanged_service

\* Database.record_run_end called with the clock's time
ApiRecordRunEnd(run_id, status, exit_code) ==
    /\ runs' = record_run_end(runs, run_id, now, status, exit_code, None)
    /\ reply' = Reply("record_run_end",
                      [run_id |-> run_id, status |-> status,
                       exit_code |-> exit_code], <<>>, "")
    /\ UNCHANGED <<tasks, nextTaskId, nextRunId>>
    /\ Unchanged_service

\* Database.recent_runs
ApiRecentRuns(limit, task_name) ==
    /\ \E rows \in recent_runs(runs, tasks, limit, task_name) :
          reply' = Reply("recent_runs", [limit |-> limit, task_name |-> task_name],
                         rows, "")
    /\ UNCHANGED <<tasks, nextTaskId, runs, nextRunId>>
    /\ Unchanged_service

-----------------------------------------------------------------------------
(* script_store.py: the JSON script catalog *)

\* Faulty variant of str_lower: the name is compared as it is written.
str_lower_kept(name) == name

\* str.lower() on the names of the catalog
str_lower(name) ==
    IF name \in {"demo", "DEMO", "Demo"} THEN "demo"
    ELSE IF name \in {"job", "JOB"} THEN "job"
    ELSE name

\* save_scripts: the list of dicts json.dumps writes, [asdict(script) ...]
save_scripts(scripts) ==
    [i \in DOMAIN scripts |->
        [name |-> scripts[i].name, command |-> scripts[i].command,
         description |-> scripts[i].description]]

\* load_scripts: a Script for each item json.loads reads
load_scripts(file) ==
    [i \in DOMAIN file |->
        [name |-> file[i].name, command |-> file[i].command,
         description |-> file[i].description]]

\* The frame of a call of ScriptRepository.
Unchanged_but_catalog ==
    UNCHANGED <<tasks, nextTaskId, runs, nextRunId, now, stop_event,
                scheduled_cron, jobs, schedRunning, loop, startRaised, ex,
                hist, cmd, reply, upd>>

\* ScriptRepository.add_script: ValueError for a name that is in the list
\* in lower case, otherwise the script is appended and the list saved
add_script(script) ==
    /\ Len(catalog.scripts) < MaxScripts
    /\ LET scripts == load_scripts(catalog.scripts) IN
       IF \E i \in DOMAIN scripts :
             str_lower(scripts[i].name) = str_lower(script.name)
       THEN catalog' = [catalog EXCEPT !.op = "add_script", !.arg = script.name,
                                       !.raised = "ValueError",
                                       !.turn = 1 - @]
       ELSE catalog' = [scripts |-> save_scripts(Append(scripts, script)),
                        op |-> "add_script", arg |-> script.name,
                        raised |-> "", turn |-> 1 - catalog.turn]
    /\ Unchanged_but_catalog

RECURSIVE Without(_, _)
\* [script for script in scripts if script.name.lower() != name]
Without(scripts, name) ==
    IF scripts = <<>> THEN <<>>
    ELSE IF str_lower(Head(scripts).name) # name
         THEN <<Head(scripts)>> \o Without(Tail(scripts), name)
         ELSE Without(Tail(scripts), name)

\* ScriptRepository.remove_script
remove_script(name) ==
    /\ catalog' = [scripts |-> save_scripts(Without(load_scripts(catalog.scripts),
                                                    str_lower(name))),
                   op |-> "remove_script", arg |-> name, raised |-> "",
                   turn |-> 1 - catalog.turn]
    /\ Unchanged_but_catalog

-----------------------------------------------------------------------------
(* updater.py: update_repository *)

\* repo_dir.expanduser().resolve(): the home directory replaces a leading ~
Resolve(dir) == IF dir = "~/app" THEN "/home/user/app" ELSE dir

\* _run_git_command(args, cwd): subprocess.run(list(args), cwd=str(cwd), ...),
\* as the record of what was executed
GitCommand(args, cwd) == [args |-> args, cwd |-> cwd]

\* Faulty variant of AfterStatus: local changes are not looked at.
AfterStatusIgnoresChanges(env, force) ==
    IF env.fails = "status" THEN "git" ELSE ""

\* update_repository lines 72-76 and _run_git_command lines 38-39: the error
\* raised after git status ran ("" when none is): the command failed, or it
\* printed changes and force is off.
AfterStatus(env, force) ==
    IF env.fails = "status" THEN "git"
    ELSE IF env.dirty /\ ~force THEN "local changes"
    ELSE ""

\* Faulty variant of Precheck: git is not looked for.
PrecheckWithoutGit(env) ==
    IF ~env.exists THEN "no directory"
    ELSE IF ~env.dotgit THEN "not a repository"
    ELSE ""

\* update_repository lines 67-68, _ensure_git_available, _ensure_repository:
\* the error raised before any command runs ("" when none is)
Precheck(env) ==
    IF ~env.git THEN "git not available"
    ELSE IF ~env.exists THEN "no directory"
    ELSE IF ~env.dotgit THEN "not a repository"
    ELSE ""

Unchanged_store ==
    UNCHANGED <<tasks, nextTaskId, runs, nextRunId, now, stop_event,
                scheduled_cron, jobs, schedRunning, loop, startRaised, ex,
                hist, cmd, reply, catalog>>

\* update_repository is called: lines 66-68
UpdateCall(dir, branch, force, env) ==
    /\ upd.pc = "idle"
    /\ upd' = [pc |-> IF Precheck(env) = "" THEN "status" ELSE "raised",
               repo_dir |-> Resolve(dir), branch |-> branch, force |-> force,
               env |-> env, executed |-> <<>>, raised |-> Precheck(env)]
    /\ Unchanged_store

\* One call of _run_git_command in update_repository: the command runs in
\* the repository directory; a non-zero status raises UpdateError.
RunGit(at, sub, args, next) ==
    /\ upd.pc = at
    /\ upd' = [upd EXCEPT
                 !.executed = Append(@, GitCommand(args, upd.repo_dir)),
                 !.pc = IF upd.env.fails = sub THEN "raised" ELSE next,
                 !.raised = IF upd.env.fails = sub THEN "git" ELSE ""]
    /\ Unchanged_store

\* update_repository lines 72-77: git status --porcelain and the check of
\* its output
GitStatus ==
    /\ upd.pc = "status"
    /\ LET error == AfterStatus(upd.env, upd.force) IN
       upd' = [upd EXCEPT
                 !.executed = Append(@, GitCommand(<<"git", "status", "--porcelain">>,
                                                   upd.repo_dir)),
                 !.pc = IF error = "" THEN "fetch" ELSE "raised",
                 !.raised = error]
    /\ Unchanged_store

\* update_repository line 79
GitFetch ==
    RunGit("fetch", "fetch", <<"git", "fetch", "origin", upd.branch>>, "checkout")

\* update_repository line 80
GitCheckout ==
    RunGit("checkout", "checkout", <<"git", "checkout", upd.branch>>, "final")

\* Faulty variant of GitResetOrPull: the work tree is reset whatever force is.
GitResetAlways ==
    RunGit("final", "reset",
           <<"git", "reset", "--hard", "origin/" \o upd.branch>>, "returned")

\* update_repository lines 82-89: reset --hard with force, pull --ff-only
\* without; line 91 returns the output
GitResetOrPull ==
    IF upd.force
    THEN RunGit("final", "reset",
                <<"git", "reset", "--hard", "origin/" \o upd.branch>>, "returned")
    ELSE RunGit("final", "pull",
                <<"git", "pull", "--ff-only", "origin", upd.branch>>, "returned")

\* The call has returned or raised; the caller goes on.
UpdateExit ==
    /\ upd.pc \in {"returned", "raised"}
    /\ upd' = UpdIdle
    /\ Unchanged_store

-----------------------------------------------------------------------------

(* Specifications *)

\* The scheduler service in steady operation: other processes change the
\* task table, the polling thread reconciles, triggers fire and pool threads
\* execute.
Next ==
    \/ \E n \in Names, inp \in TaskInputs : AddTask(n, inp)
    \/ \E n \in Names : RemoveTask(n)
    \/ \E n \in Names : Fire(n)
    \/ \E e \in SchedExecs : GetTask(e)
    \/ \E e \in SchedExecs : RecordRunStart(e)
    \/ \E e \in SchedExecs : Popen(e)
    \/ \E e \in SchedExecs : RecordRunEnd(e)
    \/ \E e \in SchedExecs : JobReturn(e)
    \/ \E e \in SchedExecs : JobExcept(e)
    \/ Start
    \/ LoopCheck
    \/ SynchroniseJobs
    \/ WaitReturns

Spec == Init /\ [][Next]_vars

\* The same with the run-once command used beside the running scheduler.
NextRunOnce ==
    \/ Next
    \/ \E n \in Names : RunOnce(n)
    \/ GetTask(CliExec)
    \/ RecordRunStart(CliExec)
    \/ Popen(CliExec)
    \/ RecordRunEnd(CliExec)
    \/ RunOnceExit

SpecRunOnce == Init /\ [][NextRunOnce]_vars

\* The same with stop requests, store failures during a pass and the
\* shutdown that follows either.
NextLifecycle ==
    \/ Next
    \/ Stop
    \/ SynchroniseFails
    \/ Shutdown
    \/ ShutdownJoined

SpecLifecycle == Init /\ [][NextLifecycle]_vars

\* The front ends beside the run-once command: requests are validated and
\* stored, tasks are removed, runs are recorded.
NextFrontEnd ==
    \/ \E req \in FrontEndRequests : CliAddTask(req)
    \/ \E req \in FrontEndRequests : GuiCreateTask(req)
    \/ \E n \in StoreNames : RemoveTask(n)
    \/ \E n \in StoreNames : RunOnce(n)
    \/ GetTask(CliExec)
    \/ RecordRunStart(CliExec)
    \/ Popen(CliExec)
    \/ RecordRunEnd(CliExec)
    \/ RunOnceExit

SpecFrontEnd == Init /\ [][NextFrontEnd]_vars

\* The task store under all its callers (both front ends and direct calls
\* of Database.add_task and remove_task) and the scheduler's loop reading
\* what they stored.
NextStore ==
    \/ \E req \in FrontEndRequests : CliAddTask(req)
    \/ \E req \in FrontEndRequests : GuiCreateTask(req)
    \/ \E n \in StoreNames, inp \in DirectInputs : AddTask(n, inp)
    \/ \E n \in StoreNames : RemoveTask(n)
    \/ Start
    \/ LoopCheck
    \/ SynchroniseJobs
    \/ SynchroniseRaises
    \/ WaitReturns
    \/ Shutdown
    \/ ShutdownJoined

SpecStore == Init /\ [][NextStore]_vars

\* The service from start() to its return while tasks are added: the loop,
\* the fires and their executions, a stop request, a store failure and the
\* shutdown.
NextStop ==
    \/ \E n \in Names, inp \in TaskInputs : AddTask(n, inp)
    \/ \E n \in Names : Fire(n)
    \/ \E e \in SchedExecs : GetTask(e)
    \/ \E e \in SchedExecs : RecordRunStart(e)
    \/ \E e \in SchedExecs : Popen(e)
    \/ \E e \in SchedExecs : RecordRunEnd(e)
    \/ \E e \in SchedExecs : JobReturn(e)
    \/ \E e \in SchedExecs : JobExcept(e)
    \/ Start
    \/ LoopCheck
    \/ SynchroniseJobs
    \/ SynchroniseFails
    \/ WaitReturns
    \/ Stop
    \/ Shutdown
    \/ ShutdownJoined

SpecStop == Init /\ [][NextStop]_vars

\* One step of the polling thread inside start(), once start() was called.
LoopStep ==
    \/ LoopCheck
    \/ SynchroniseJobs
    \/ SynchroniseFails
    \/ WaitReturns
    \/ Shutdown
    \/ ShutdownJoined

\* One step of the pool thread running the job function in context e.
ExecStep(e) ==
    \/ GetTask(e)
    \/ RecordRunStart(e)
    \/ Popen(e)
    \/ RecordRunEnd(e)
    \/ JobReturn(e)
    \/ JobExcept(e)

\* The same under the scheduling the threads get: the polling thread keeps
\* running (Event.wait returns at the latest when its timeout expires), each
\* pool thread keeps running and every started subprocess terminates.
SpecStopFair ==
    /\ SpecStop
    /\ WF_vars(LoopStep)
    /\ \A e \in SchedExecs : WF_vars(ExecStep(e))

\* The service with crashes: the process can die at any point and be
\* started again on the same database.
NextCrash ==
    \/ \E n \in Names : AddTask(n, InputOf(n))
    \/ \E n \in Names : RemoveTask(n)
    \/ \E n \in Names : Fire(n)
    \/ \E e \in SchedExecs : GetTask(e)
    \/ \E e \in SchedExecs : RecordRunStart(e)
    \/ \E e \in SchedExecs : Popen(e)
    \/ \E e \in SchedExecs : RecordRunEnd(e)
    \/ \E e \in SchedExecs : JobReturn(e)
    \/ \E e \in SchedExecs : JobExcept(e)
    \/ Start
    \/ LoopCheck
    \/ SynchroniseJobs
    \/ WaitReturns
    \/ Crash

SpecCrash == Init /\ [][NextCrash]_vars

\* The service while tasks are added and the clock runs, a run's start seen
\* step by step.
NextClock ==
    \/ \E n \in Names : AddTask(n, InputOf(n))
    \/ \E n \in Names : Fire(n)
    \/ \E e \in SchedExecs : GetTask(e)
    \/ \E e \in SchedExecs : ReadClock(e)
    \/ \E e \in SchedExecs : InsertRunStart(e)
    \/ \E e \in SchedExecs : Popen(e)
    \/ \E e \in SchedExecs : RecordRunEnd(e)
    \/ \E e \in SchedExecs : JobReturn(e)
    \/ \E e \in SchedExecs : JobExcept(e)
    \/ Start
    \/ LoopCheck
    \/ SynchroniseJobs
    \/ WaitReturns
    \/ Tick

SpecClock == Init /\ [][NextClock]_vars

\* A client of Database (the tests, a front end) adding, reading and
\* removing tasks.
NextTasksApi ==
    \/ \E n \in Names, inp \in TaskInputs : ApiAddTask(n, inp)
    \/ \E n \in Names : ApiGetTask(n)
    \/ ApiListTasks
    \/ \E n \in Names : ApiRemoveTask(n)

SpecTasksApi == Init /\ [][NextTasksApi]_vars

\* A client of Database recording runs of the tasks and reading them back.
NextRunsApi ==
    \/ \E n \in Names : ApiAddTask(n, PlainInput)
    \/ \E n \in Names : ApiRemoveTask(n)
    \/ \E id \in 1..MaxTaskId : ApiRecordRunStart(id)
    \/ \E id \in 1..MaxRuns, code \in ExitCodes :
          ApiRecordRunEnd(id, StatusOf(code), Some(code))
    \/ \E limit \in Limits, n \in {None, Some("a")} : ApiRecentRuns(limit, n)

SpecRunsApi == Init /\ [][NextRunsApi]_vars

\* run-once commands given one after another while the clock runs, and the
\* history read back with recent_runs between two of them.
NextHistory ==
    \/ \E n \in Names : AddTask(n, PlainInput)
    \/ \E n \in Names : RunOnce(n)
    \/ GetTask(CliExec)
    \/ RecordRunStart(CliExec)
    \/ Popen(CliExec)
    \/ RecordRunEnd(CliExec)
    \/ RunOnceExit
    \/ /\ ex[CliExec].pc = "idle"
       /\ \E limit \in Limits, n \in {None, Some(""), Some("a")} :
             ApiRecentRuns(limit, n)
    \/ Tick

SpecHistory == Init /\ [][NextHistory]_vars

\* Tasks added, removed and added again, run with run-once, and the
\* history read back between two commands.
NextReadd ==
    \/ \E n \in Names : AddTask(n, PlainInput)
    \/ \E n \in Names : RemoveTask(n)
    \/ \E n \in Names : RunOnce(n)
    \/ GetTask(CliExec)
    \/ RecordRunStart(CliExec)
    \/ Popen(CliExec)
    \/ RecordRunEnd(CliExec)
    \/ RunOnceExit
    \/ /\ ex[CliExec].pc = "idle"
       /\ \E limit \in Limits, n \in {None, Some("a")} : ApiRecentRuns(limit, n)

SpecReadd == Init /\ [][NextReadd]_vars

\* A user of the script catalog adding and removing scripts.
NextCatalog ==
    \/ \E script \in Scripts : add_script(script)
    \/ \E name \in ScriptNames : remove_script(name)

SpecCatalog == Init /\ [][NextCatalog]_vars

\* update_repository called again and again, in every environment.
NextUpdate ==
    \/ \E dir \in RepoDirs, branch \in Branches, force \in BOOLEAN,
          env \in Environments : UpdateCall(dir, branch, force, env)
    \/ GitStatus
    \/ GitFetch
    \/ GitCheckout
    \/ GitResetOrPull
    \/ UpdateExit

SpecUpdate == Init /\ [][NextUpdate]_vars

-----------------------------------------------------------------------------
(* Properties *)

Terminal == {"success", "failed"}

\* The run row of the execution in context e, when it has one in the table.
HasRow(e) == ex[e].run_id # None /\ Get(ex[e].run_id) \in DOMAIN runs
RowOf(e) == runs[Get(ex[e].run_id)]

\* The step delivers a trigger fire of job n.
FiredStep(n) == hist'.fires[n] = hist.fires[n] + 1

RunningRowsOf(task_id) ==
    {i \in DOMAIN runs : runs[i].task_id = task_id /\ runs[i].status = "running"}

(* C1: for every task name, a trigger fire that arrives while a dispatched *)
(* run of that name has not finished starts no second execution: no        *)
(* executor context changes (no subprocess is launched) and no run row is  *)
(* inserted; the scheduler never has two dispatches of one name in flight. *)
C1_OverlappingFireDropped ==
    /\ [](\A n \in Names : Instances(n) <= 1)
    /\ [][\A n \in Names :
            (FiredStep(n) /\ Instances(n) >= 1)
                => (ex' = ex /\ runs' = runs /\ nextRunId' = nextRunId)]_vars

\* A fire of n was dropped while n's subprocess was running.
C1_Witness ==
    \E n \in Names :
        /\ hist.fires[n] > hist.idle[n]
        /\ \E s \in Slots : ex[<<n, s>>].pc = "wait"

(* C2: while no process has crashed, each task has at most one run row     *)
(* with status running, whichever entry point (trigger fire or run-once)   *)
(* started the runs.                                                       *)
C2_OneRunningRowPerTask ==
    \A t \in tasks : Cardinality(RunningRowsOf(t.id)) <= 1

(* C3: a fire dropped because the task was still running is never queued:  *)
(* a dispatch leaves idle only in a step that delivers a fire of its name  *)
(* (never in the step that finishes the prior run), and the runs started   *)
(* by dispatches of a name never outnumber the fires of that name that     *)
(* arrived while no dispatch of it was in flight.                          *)
C3_DroppedFireNeverQueued ==
    /\ [](\A n \in Names : hist.started[n] <= hist.idle[n])
    /\ [][\A e \in SchedExecs :
            (ex[e].pc = "idle" /\ ex'[e].pc # "idle") => FiredStep(e[1])]_vars

\* A fire of n was dropped, the prior run has finished, and nothing runs
\* or is owed for the dropped fire.
C3_Witness ==
    \E n \in Names :
        /\ hist.fires[n] > hist.idle[n]
        /\ hist.started[n] >= 1
        /\ hist.started[n] = hist.idle[n]
        /\ Instances(n) = 0

(* C4: every run row is created running with a null finish timestamp; a    *)
(* call of the run executor moves its own row to success or failed by the  *)
(* time it returns or raises, and the row is running until then; a row     *)
(* that is terminal never changes again; a row disappears only in a step   *)
(* that deletes its task.                                                  *)
C4_RunRowLifecycle ==
    /\ [](\A e \in Executors :
            HasRow(e) =>
                /\ ex[e].pc \in {"popen", "wait"} => RowOf(e).status = "running"
                /\ ex[e].pc \in {"returned", "raised"} => RowOf(e).status \in Terminal)
    /\ [][/\ \A i \in DOMAIN runs' \ DOMAIN runs :
                runs'[i].status = "running" /\ runs'[i].finished_at = None
          /\ \A i \in DOMAIN runs :
                /\ i \notin DOMAIN runs' =>
                       \E t \in tasks \ tasks' : t.id = runs[i].task_id
                /\ (i \in DOMAIN runs' /\ runs'[i] # runs[i]) =>
                       /\ runs[i].status = "running"
                       /\ runs'[i].status \in Terminal
                       /\ runs'[i].finished_at # None]_vars

\* Two calls have ended, one row success and one row failed, the later
\* call has just returned.
C4_Witness ==
    \E e \in Executors : \E i \in DOMAIN runs :
        /\ ex[e].pc = "returned"
        /\ HasRow(e)
        /\ i # Get(ex[e].run_id)
        /\ runs[i].status \in Terminal
        /\ runs[i].status # RowOf(e).status

(* C5: the run-start row is committed before the subprocess is launched:   *)
(* whenever the subprocess of an execution has been started, the run row   *)
(* of that execution exists, for the task being executed.                  *)
C5_RunStartRowBeforeLaunch ==
    \A e \in Executors :
        ex[e].pc \in {"wait", "returned"} =>
            /\ HasRow(e)
            /\ RowOf(e).task_id = Get(ex[e].task).id

\* A subprocess is running and its row is in the table, still running.
C5_Witness ==
    \E e \in Executors :
        ex[e].pc = "wait" /\ HasRow(e) /\ RowOf(e).status = "running"

\* Popen is about to fail in context e: the executable is not there.
LaunchWillFail(e) ==
    /\ ex[e].pc = "popen"
    /\ Executable(Get(ex[e].task)) \notin ExistingExecutables

(* C6: when the subprocess cannot be started, the run row of that          *)
(* execution ends failed with a null exit code, a finish timestamp and a   *)
(* non-empty message, and the run executor raises to its caller; the row   *)
(* is not left running.                                                    *)
C6_LaunchFailureRecorded ==
    /\ [](\A e \in Executors :
            (ex[e].pc = "raised" /\ HasRow(e)) =>
                /\ RowOf(e).status = "failed"
                /\ RowOf(e).exit_code = None
                /\ RowOf(e).finished_at # None
                /\ RowOf(e).message # None
                /\ Get(RowOf(e).message) # "")
    /\ [][\A e \in Executors :
            (LaunchWillFail(e) /\ ex'[e] # ex[e]) =>
                /\ ex'[e].pc = "raised"
                /\ ex'[e].exc # None
                /\ Get(ex[e].run_id) \in DOMAIN runs'
                /\ runs'[Get(ex[e].run_id)].status = "failed"]_vars

\* A launch has failed, the executor has raised and the row is failed with
\* no exit code.
C6_Witness ==
    \E e \in Executors :
        /\ ex[e].pc = "raised"
        /\ HasRow(e)
        /\ RowOf(e).status = "failed"
        /\ RowOf(e).exit_code = None
        /\ RowOf(e).message = Some(LaunchErrorMessage)

(* C7: when the subprocess starts and terminates with exit code c, the     *)
(* run executor returns normally (it does not raise) and the run row has   *)
(* exit_code = c, status success if c = 0 and status failed otherwise.     *)
C7_ExitCodeRecorded ==
    /\ [](\A e \in Executors :
            (ex[e].pc = "returned" /\ HasRow(e)) =>
                /\ ex[e].exc = None
                /\ RowOf(e).exit_code = ex[e].exit_code
                /\ (Get(ex[e].exit_code) = 0 => RowOf(e).status = "success")
                /\ (Get(ex[e].exit_code) # 0 => RowOf(e).status = "failed"))
    /\ [][\A e \in Executors :
            (ex[e].pc = "wait" /\ ex'[e] # ex[e]) =>
                /\ ex'[e].pc = "returned"
                /\ ex'[e].exit_code # None
                /\ Get(ex'[e].exit_code) \in ExitCodes]_vars

\* A run has returned with a nonzero exit code recorded as failed while
\* another row holds a success with exit code 0.
C7_Witness ==
    \E e \in Executors : \E i \in DOMAIN runs :
        /\ ex[e].pc = "returned"
        /\ HasRow(e)
        /\ Get(ex[e].exit_code) # 0
        /\ RowOf(e).status = "failed"
        /\ runs[i].status = "success"
        /\ runs[i].exit_code = Some(0)

(* C8: when the run executor raises during a trigger-fired dispatch, the   *)
(* dispatch catches the error and ends: the step changes neither the       *)
(* installed triggers nor the scheduled-cron map, the polling loop keeps   *)
(* its position, the trigger runtime stays started and no exception        *)
(* reaches start().                                                        *)
C8_DispatchErrorContained ==
    [][\A e \in SchedExecs :
          (ex[e].pc = "raised" /\ ex'[e] # ex[e]) =>
              /\ ex'[e] = IdleExec
              /\ jobs' = jobs
              /\ scheduled_cron' = scheduled_cron
              /\ loop' = loop
              /\ schedRunning' = schedRunning
              /\ startRaised' = startRaised
              /\ stop_event' = stop_event]_vars

\* The dispatch of task a failed to launch and was caught; a's trigger is
\* still installed, the loop is alive and a later dispatch of another task
\* b is running its subprocess.
C8_Witness ==
    \E a \in Names : \E b \in Names \ {a} : \E i \in DOMAIN runs :
        /\ runs[i].status = "failed"
        /\ runs[i].exit_code = None
        /\ \E t \in tasks : t.name = a /\ t.id = runs[i].task_id
        /\ Instances(a) = 0
        /\ a \in DOMAIN jobs
        /\ schedRunning
        /\ loop \in {"check", "sync", "wait"}
        /\ \E s \in Slots :
              /\ ex[<<b, s>>].pc = "wait"
              /\ Get(ex[<<b, s>>].run_id) > i

(* C9: when a task store operation fails during a reconciliation pass,     *)
(* only that pass is lost: unless a stop was requested, the polling loop   *)
(* is still in its cycle and the trigger runtime has not been shut down.   *)
C9_FailedPassOnlyLosesThatPass ==
    (hist.pass_failed /\ ~stop_event) =>
        (loop \in {"check", "sync", "wait"} /\ schedRunning /\ ~startRaised)

(* C10: the dispatch of a fire re-reads the task by name: when no task of  *)
(* that name is in the store the dispatch ends there, with no run row and  *)
(* no subprocess; otherwise the execution carries the row that is in the   *)
(* store at that moment, its run row is recorded under that row's id, and  *)
(* a subprocess is only started with that row's interpreter.               *)
C10_DispatchRereadsTask ==
    /\ [](\A e \in SchedExecs :
            /\ ex[e].task # None => Get(ex[e].task).name = e[1]
            /\ HasRow(e) => RowOf(e).task_id = Get(ex[e].task).id
            /\ ex[e].pc = "wait" =>
                   Executable(Get(ex[e].task)) \in ExistingExecutables)
    /\ [][\A e \in SchedExecs :
            (ex[e].pc = "get_task" /\ ex'[e] # ex[e]) =>
                IF \E t \in tasks : t.name = e[1]
                THEN /\ ex'[e].pc = "run_start"
                     /\ ex'[e].task # None
                     /\ Get(ex'[e].task) \in tasks
                ELSE /\ ex'[e] = IdleExec
                     /\ runs' = runs
                     /\ nextRunId' = nextRunId]_vars

\* A dispatch executes the definition now in the store while the installed
\* trigger still comes from an older definition of that name (another cron).
C10_Witness ==
    \E e \in SchedExecs :
        /\ ex[e].pc \in {"popen", "wait"}
        /\ Get(ex[e].task) \in tasks
        /\ e[1] \in DOMAIN scheduled_cron
        /\ scheduled_cron[e[1]] # Get(ex[e].task).cron

\* The step is a reconciliation pass that runs to its end.
PassCompletes == loop = "sync" /\ loop' = "wait"

\* The map and the installed triggers mirror the store: the map's names are
\* the stored names, each entry is the stored expression, the installed
\* triggers are those of the map's names, each built from the map's entry.
Mirrors(ts, sc, js) ==
    /\ DOMAIN sc = {t.name : t \in ts}
    /\ \A t \in ts : sc[t.name] = t.cron
    /\ DOMAIN js = DOMAIN sc
    /\ \A n \in DOMAIN js : js[n].trigger = FromCrontab(sc[n])

(* C11: every reconciliation pass that completes leaves the scheduled-cron *)
(* map with exactly the names of the tasks in the store at that pass, each *)
(* entry equal to the stored expression, and the installed triggers equal  *)
(* to the map's keys, each trigger built from the map entry's expression.  *)
C11_PassMirrorsStore ==
    [][PassCompletes => Mirrors(tasks, scheduled_cron', jobs')]_vars

\* A pass has completed after the first task was removed and a second task
\* with another expression was stored: one trigger is installed, built from
\* the second task's expression.
C11_Witness ==
    /\ loop = "wait"
    /\ \E t \in tasks :
          /\ t.id >= 2
          /\ t.cron = CronEvery5
          /\ DOMAIN jobs = {t.name}
          /\ jobs[t.name].trigger = FromCrontab(CronEvery5)
          /\ scheduled_cron[t.name] = CronEvery5

(* C12: a reconciliation pass over a store that has not changed since the  *)
(* previous pass (the map and the triggers still mirror it) is a no-op: it *)
(* installs, replaces and removes no trigger and leaves the scheduled-cron *)
(* map unchanged.                                                          *)
C12_SecondPassNoOp ==
    [][(PassCompletes /\ Mirrors(tasks, scheduled_cron, jobs))
          => (jobs' = jobs /\ scheduled_cron' = scheduled_cron)]_vars

\* The next pass is due over a store with two tasks that the previous pass
\* has already mirrored.
C12_Witness ==
    /\ loop = "sync"
    /\ Cardinality(tasks) = 2
    /\ Mirrors(tasks, scheduled_cron, jobs)

\* A name with its upper-case letters replaced by their lower-case ones (the
\* names of the model that have upper-case letters are listed).
Lower(name) == IF name = "DEMO" THEN "demo" ELSE name

(* C13: task names are unique under case-insensitive comparison: the store *)
(* never holds two tasks whose names are equal ignoring case (so adding    *)
(* "DEMO" while "demo" is stored fails and leaves the one original task).  *)
C13_NamesUniqueIgnoringCase ==
    \A t1 \in tasks : \A t2 \in tasks :
        Lower(t1.name) = Lower(t2.name) => t1 = t2

(* C14: removing a task deletes all of its run-history rows: when a step  *)
(* deletes a task from the store (remove_task returns true), the runs      *)
(* table holds afterwards no row whose task id is the removed task's id.   *)
C14_RemovedTaskLeavesNoRuns ==
    [][\A t \in tasks \ tasks' :
          \A i \in DOMAIN runs' : runs'[i].task_id # t.id]_vars

\* The request is one the front ends must refuse, given the store ts: its
\* script, interpreter or working directory does not exist, its expression
\* does not parse, or its name is in use.
FailsValidation(req, ts) ==
    \/ req.script \notin ExistingPaths
    \/ ~Parses(req.cron)
    \/ req.python # None /\ Get(req.python) \notin ExistingPaths
    \/ req.working_dir # None /\ Get(req.working_dir) \notin ExistingPaths
    \/ \E t \in ts : t.name = req.name

\* The step is a run of the command line's add command.
CliAddStep == cmd' # cmd /\ cmd'.via = "cli"

(* C15: a task-creation request of the command line that fails validation *)
(* (malformed cron expression, missing script, interpreter or working      *)
(* directory, or a name already in use) ends with a non-zero exit status   *)
(* and leaves the stored tasks and the run history as they were.           *)
C15_InvalidRequestRejected ==
    [][(CliAddStep /\ FailsValidation(Get(cmd'.request), tasks))
          => /\ cmd'.exit_code # None
             /\ Get(cmd'.exit_code) # 0
             /\ tasks' = tasks
             /\ nextTaskId' = nextTaskId
             /\ runs' = runs]_vars

\* The command line has refused a malformed expression with status 1 while
\* the store holds a task and a recorded run.
C15_Witness ==
    /\ cmd.via = "cli"
    /\ cmd.error = "cron"
    /\ cmd.exit_code = Some(1)
    /\ tasks # {}
    /\ runs # <<>>

(* C16: every task in the store has a cron expression that parses,         *)
(* whichever caller of Database.add_task created it (so that no            *)
(* reconciliation pass fails with a parse error when it installs or        *)
(* replaces a trigger).                                                    *)
C16_StoredCronParses ==
    \A t \in tasks : Parses(t.cron)

\* The step sets the stop flag.
StopStep == ~stop_event /\ stop_event'

\* The step begins a reconciliation pass (and runs it, to its end or to the
\* exception that ends it).
PassBegins == loop = "sync" /\ loop' # "sync"

(* C17, as stated: a termination signal or stop() only sets the stop flag, *)
(* and no reconciliation pass begins after the flag has been set.          *)
C17_NoPassAfterStop ==
    [][~(stop_event /\ PassBegins)]_vars

(* C17, amended: a termination signal or stop() only sets the stop flag    *)
(* (the loop keeps its position, so a pass in progress runs on, and no     *)
(* trigger, map entry or execution changes); once the loop evaluates its   *)
(* while condition with the flag set it begins no pass but goes to the     *)
(* shutdown; the only pass that can begin with the flag set is the one     *)
(* whose while condition was evaluated before the flag was set, and the    *)
(* loop goes from it to the wait and from there to the shutdown.           *)
C17_StopOnlySetsFlag ==
    /\ [][StopStep =>
            UNCHANGED <<tasks, nextTaskId, runs, nextRunId, now,
                        scheduled_cron, jobs, schedRunning, loop, startRaised,
                        ex, hist, cmd, reply, upd, catalog>>]_vars
    /\ [][(stop_event /\ loop \in {"check", "wait"} /\ loop' # loop)
              => loop' = "shutdown"]_vars
    /\ [][(stop_event /\ PassBegins) => loop' \in {"wait", "shutdown"}]_vars

\* The flag was set while triggers were installed and the loop has left,
\* with no exception, through the shutdown.
C17_Witness ==
    /\ stop_event
    /\ loop = "stopped"
    /\ ~startRaised
    /\ jobs # <<>>

\* The step takes the polling thread into or through the shutdown.
ShutdownStep == loop' # loop /\ loop' \in {"shutdown", "joining", "stopped"}

(* C18: stopping does not cancel an in-flight execution: neither the step  *)
(* that sets the stop flag nor a step of the shutdown changes an execution *)
(* or a run row; a subprocess that is running when the flag is set still   *)
(* ends with its exit code recorded in a terminal row; and when start()    *)
(* has returned every dispatched job function has returned and no run row  *)
(* of the scheduler is still running.                                      *)
C18_StopLetsRunsFinish ==
    /\ [](loop = "stopped" =>
            /\ \A e \in SchedExecs : ex[e].pc = "idle"
            /\ \A i \in DOMAIN runs : runs[i].status \in Terminal)
    /\ [][(StopStep \/ ShutdownStep) => (ex' = ex /\ runs' = runs)]_vars
    /\ [][\A e \in SchedExecs :
            (stop_event /\ ex[e].pc = "wait" /\ ex'[e] # ex[e]) =>
                /\ ex'[e].pc = "returned"
                /\ runs'[Get(ex[e].run_id)].status \in Terminal
                /\ runs'[Get(ex[e].run_id)].exit_code = ex'[e].exit_code]_vars

\* The stop flag is set and start() is waiting in the shutdown for a
\* dispatch whose subprocess has ended with its row recorded as success.
C18_Witness ==
    /\ stop_event
    /\ loop = "joining"
    /\ \E e \in SchedExecs :
          /\ ex[e].pc = "returned"
          /\ HasRow(e)
          /\ RowOf(e).status = "success"
          /\ RowOf(e).finished_at # None

(* C19: once the stop flag is set and start() is running, start()          *)
(* eventually returns, provided the threads keep running and every         *)
(* in-flight subprocess terminates: the wait between polls returns and the *)
(* loop leaves at its next check of the flag.                              *)
C19_StopLeadsToReturn ==
    (stop_event /\ loop # "init") ~> (loop = "stopped")

\* start() has returned after a stop request that found a recorded run and
\* installed triggers.
C19_Witness ==
    /\ stop_event
    /\ loop = "stopped"
    /\ runs # <<>>
    /\ DOMAIN jobs = Names

\* The subprocess of a dispatched execution of task n is running.
SubprocessRunning(n) == \E s \in Slots : ex[<<n, s>>].pc = "wait"

\* A dispatch of task n has been issued and has not returned.
InFlight(n) == \E s \in Slots : ex[<<n, s>>].pc # "idle"

(* C20: an in-flight execution of task A blocks neither the loop nor other *)
(* tasks: while A's subprocess is running, the polling thread's next step  *)
(* (the pass that is due, the return of the wait) can be taken, and a fire *)
(* of another task B of which no dispatch is in flight starts B's          *)
(* execution, whatever the executions of other tasks are doing.            *)
C20_RunBlocksNeitherLoopNorOthers ==
    /\ [](\A a \in Names :
            SubprocessRunning(a) =>
                /\ loop = "sync" => ENABLED SynchroniseJobs
                /\ loop = "wait" => ENABLED WaitReturns)
    /\ [][\A b \in Names :
            (FiredStep(b) /\ ~InFlight(b)) =>
                \E s \in Slots : ex'[<<b, s>>].pc = "get_task"]_vars

\* The subprocesses of two tasks are running at once, the later one was
\* started while the earlier one was running, and the loop is in its cycle.
C20_Witness ==
    \E a \in Names : \E b \in Names \ {a} : \E sa \in Slots : \E sb \in Slots :
        /\ ex[<<a, sa>>].pc = "wait"
        /\ ex[<<b, sb>>].pc = "wait"
        /\ RowOf(<<a, sa>>).status = "running"
        /\ RowOf(<<b, sb>>).status = "running"
        /\ loop \in {"sync", "wait"}

-----------------------------------------------------------------------------
(* Properties of a crash *)

\* Run row i is in status running and no execution of the service holds it:
\* the process that inserted it died before writing its end.
Orphaned(i) ==
    /\ i \in DOMAIN runs
    /\ runs[i].status = "running"
    /\ \A e \in Executors : ex[e].run_id # Some(i)

\* C21: a row whose run-start was recorded and whose process crashed before
\* the run-end was written stays as it is: no step (restart, the tables'
\* initialisation, a reconciliation pass, a later run of the same task, the
\* removal of a task) changes its status, finish timestamp or exit code.
C21_OrphanedRowStaysRunning ==
    [][\A i \in DOMAIN runs :
          Orphaned(i) =>
             /\ i \in DOMAIN runs'
             /\ runs'[i].status = "running"
             /\ runs'[i].finished_at = None
             /\ runs'[i].exit_code = None]_vars

\* After a crash and a restart a later run of the same task has ended while
\* the orphaned row is still there.
C21_Witness ==
    \E i, j \in DOMAIN runs :
        /\ Orphaned(i)
        /\ i < j
        /\ runs[j].task_id = runs[i].task_id
        /\ runs[j].status = "success"
        /\ loop = "wait"

-----------------------------------------------------------------------------
(* Properties of the Database methods *)

\* The step is a call of the Database method op by the client.
IsCall(op) == reply'.turn # reply.turn /\ reply'.op = op

\* The rows of ts named n.
RowsNamed(ts, n) == {t \in ts : t.name = n}

\* C22: recent_runs returns the runs most recent start first: of runs
\* recorded one after another the later recorded (the larger id) comes
\* before the earlier recorded, also when they started within one clock
\* second; it returns at most limit rows and, given a task name, only runs
\* of that task.
C22_RecentRunsNewestFirst ==
    reply.op = "recent_runs" =>
        /\ \A p, q \in DOMAIN reply.value :
              p < q => reply.value[p].id > reply.value[q].id
        /\ Len(reply.value) <= reply.args.limit
        /\ (reply.args.task_name # None /\ reply.args.task_name # Some(""))
              => \A p \in DOMAIN reply.value :
                    reply.value[p].task_name = reply.args.task_name

\* The step is a call of remove_task that removes the row t.
Removes(t) == IsCall("remove_task") /\ reply'.args.name = t.name

\* C23: remove_task(name) returns true exactly when a task of that name was
\* in the store at the call; after it no task of that name is in the store
\* and every other task is unchanged; only add_task brings a name into the
\* store, so a second remove_task of the name with no add_task in between
\* returns false.
C23_RemoveTaskReturn ==
    [][ /\ IsCall("remove_task") =>
            /\ reply'.value = <<RowsNamed(tasks, reply'.args.name) # {}>>
            /\ RowsNamed(tasks', reply'.args.name) = {}
            /\ tasks' = tasks \ RowsNamed(tasks, reply'.args.name)
            /\ (reply.op = "remove_task" /\ reply.args.name = reply'.args.name)
                  => reply'.value = <<FALSE>>
        /\ ~IsCall("add_task") => tasks' \subseteq tasks ]_vars

\* A remove_task that returned true with another task left in the store,
\* and the same call repeated.
C23_Witness ==
    /\ reply.op = "remove_task"
    /\ reply.value = <<FALSE>>
    /\ nextTaskId > 2
    /\ Cardinality(tasks) = 1
    /\ RowsNamed(tasks, reply.args.name) = {}

\* C24: add_task returns the stored row, which has a fresh id and the name
\* and cron given; get_task(name) returns the one row of that name (the row
\* add_task returned, as rows only leave the store through remove_task of
\* their name and never change); list_tasks holds every stored row once, so
\* exactly one row of that name.
C24_AddThenGet ==
    [][ /\ (IsCall("add_task") /\ reply'.raised = "") =>
            /\ Len(reply'.value) = 1
            /\ reply'.value[1].name = reply'.args.name
            /\ reply'.value[1].cron = reply'.args.cron
            /\ \A t \in tasks : t.id # reply'.value[1].id
            /\ RowsNamed(tasks', reply'.args.name) = {reply'.value[1]}
        /\ IsCall("get_task") =>
            /\ Cardinality(RowsNamed(tasks, reply'.args.name)) <= 1
            /\ \A t \in RowsNamed(tasks, reply'.args.name) : reply'.value = <<t>>
            /\ RowsNamed(tasks, reply'.args.name) = {} => reply'.value = <<>>
        /\ IsCall("list_tasks") =>
            /\ Len(reply'.value) = Cardinality(tasks)
            /\ \A t \in tasks : \E p \in DOMAIN reply'.value : reply'.value[p] = t
        /\ \A t \in tasks : t \in tasks' \/ Removes(t) ]_vars

\* get_task returned the second of two stored tasks right after add_task
\* returned it.
C24_Witness ==
    /\ reply.op = "get_task"
    /\ Cardinality(tasks) = 2
    /\ reply.value # <<>>
    /\ reply.value[1].id = 2
    /\ reply.value[1].cron = CronEvery5

\* The stored tasks with the id of run i of rs.
Owners(rs, ts, i) == {t \in ts : t.id = rs[i].task_id}

\* C25: record_run_end(run_id, status, exit_code) sets the status and the
\* exit code of that run and changes no other run row; recent_runs without
\* a task name and with room for every row returns, for each run whose task
\* is stored, exactly one row, carrying the run's status and exit code, the
\* task's id and the task's name.
C25_RunRecordedAndListed ==
    [][ /\ IsCall("record_run_end") =>
            /\ DOMAIN runs' = DOMAIN runs
            /\ \A i \in DOMAIN runs :
                  IF i = reply'.args.run_id
                  THEN /\ runs'[i].status = reply'.args.status
                       /\ runs'[i].exit_code = reply'.args.exit_code
                       /\ runs'[i].task_id = runs[i].task_id
                  ELSE runs'[i] = runs[i]
        /\ (IsCall("recent_runs") /\ reply'.args.task_name = None
              /\ Len(runs) <= reply'.args.limit) =>
            \A i \in DOMAIN runs :
               LET hits == {p \in DOMAIN reply'.value : reply'.value[p].id = i} IN
               IF Owners(runs, tasks, i) = {}
               THEN hits = {}
               ELSE /\ Cardinality(hits) = 1
                    /\ \A p \in hits :
                         /\ reply'.value[p].status = runs[i].status
                         /\ reply'.value[p].exit_code = runs[i].exit_code
                         /\ reply'.value[p].task_id = runs[i].task_id
                         /\ \A t \in Owners(runs, tasks, i) :
                               reply'.value[p].task_name = Some(t.name) ]_vars

\* recent_runs returned a finished run and a running one of stored tasks.
C25_Witness ==
    /\ reply.op = "recent_runs"
    /\ Len(reply.value) = 2
    /\ \E p, q \in DOMAIN reply.value :
          /\ reply.value[p].status = "failed"
          /\ reply.value[p].exit_code = Some(1)
          /\ reply.value[p].task_name = Some("b")
          /\ reply.value[q].status = "running"

-----------------------------------------------------------------------------
(* Properties of the order of a reconciliation pass *)

\* The stored task named n.
Stored(n) == CHOOSE t \in tasks : t.name = n

-----------------------------------------------------------------------------
(* Properties of the run history of one task *)

\* C30: of two run rows of one task that scheduler dispatches created, the
\* one with the larger id has a start timestamp greater than or equal to
\* that of the one with the smaller id.
C30_StartsMonotonePerTask ==
    \A i, j \in DOMAIN runs :
        (i < j /\ runs[i].task_id = runs[j].task_id)
            => runs[i].started_at <= runs[j].started_at

\* Two runs of one task in different seconds.
C30_Witness ==
    \E i, j \in DOMAIN runs :
        /\ i < j
        /\ runs[i].task_id = runs[j].task_id
        /\ runs[i].started_at < runs[j].started_at
        /\ runs[j].status = "success"

-----------------------------------------------------------------------------
(* Properties of update_repository *)

IsPrefix(s, t) == Len(s) <= Len(t) /\ s = SubSeq(t, 1, Len(s))

\* The call in progress is on a git repository with git available.
OnRepository == upd.pc # "idle" /\ upd.env.git /\ upd.env.exists /\ upd.env.dotgit

\* The call in progress has returned or raised.
UpdateEnded == upd.pc \in {"returned", "raised"}

\* The subcommands executed so far.
Subcommands == {upd.executed[i].args[2] : i \in DOMAIN upd.executed}

\* The commands of an update without force, each in the directory dir.
PlainCommands(dir, branch) ==
    << [args |-> <<"git", "status", "--porcelain">>, cwd |-> dir],
       [args |-> <<"git", "fetch", "origin", branch>>, cwd |-> dir],
       [args |-> <<"git", "checkout", branch>>, cwd |-> dir],
       [args |-> <<"git", "pull", "--ff-only", "origin", branch>>, cwd |-> dir] >>

\* C26: on a git repository with git available, a clean work tree and
\* force off, update_repository executes status --porcelain, fetch origin
\* <branch>, checkout <branch>, pull --ff-only origin <branch>, in this
\* order, each in the repository directory, and nothing else: what it has
\* executed is always a prefix of that list (never reset --hard), and the
\* whole list once it returned; it returns when no command fails.
C26_PlainUpdateCommands ==
    (OnRepository /\ ~upd.env.dirty /\ ~upd.force) =>
        /\ IsPrefix(upd.executed, PlainCommands(upd.repo_dir, upd.branch))
        /\ "reset" \notin Subcommands
        /\ upd.pc = "returned" =>
              upd.executed = PlainCommands(upd.repo_dir, upd.branch)
        /\ (UpdateEnded /\ upd.env.fails \notin {"status", "fetch", "checkout", "pull"})
              => upd.pc = "returned"

C26_Witness ==
    /\ OnRepository /\ ~upd.env.dirty /\ ~upd.force
    /\ upd.pc = "returned"
    /\ Len(upd.executed) = 4
    /\ upd.repo_dir = "/home/user/app"

\* C27: when git status --porcelain reports local changes and force is off,
\* update_repository raises UpdateError and executes no fetch, checkout, pull
\* or reset command.
C27_LocalChangesStopUpdate ==
    (OnRepository /\ upd.env.dirty /\ ~upd.force) =>
        /\ upd.pc \in {"status", "raised"}
        /\ Subcommands \subseteq {"status"}
        /\ upd.pc = "raised" => upd.raised # ""

C27_Witness ==
    /\ OnRepository /\ upd.env.dirty /\ ~upd.force
    /\ upd.env.fails # "status"
    /\ upd.pc = "raised"
    /\ upd.raised = "local changes"
    /\ Len(upd.executed) = 1

\* C28: when the git executable is not available, update_repository raises
\* UpdateError before executing any git command.
C28_NoGitNoCommand ==
    (upd.pc # "idle" /\ ~upd.env.git) =>
        /\ upd.pc = "raised"
        /\ upd.raised # ""
        /\ upd.executed = <<>>

C28_Witness ==
    /\ upd.pc = "raised"
    /\ ~upd.env.git /\ upd.env.exists /\ upd.env.dotgit
    /\ upd.raised = "git not available"

-----------------------------------------------------------------------------
(* Properties of the scheduled-cron map *)

\* C31: the scheduled-cron map is changed only by a reconciliation pass,
\* which the polling thread runs at its position "sync": a trigger fire, the
\* steps of its dispatch, a run's start and end, a stop request and a
\* signal handler leave it as it is.
C31_MapChangedOnlyByPass ==
    [][scheduled_cron' # scheduled_cron => loop = "sync"]_vars

\* The map holds a name, a dispatch of that name has recorded the end of its
\* run and returned, and a stop has been requested.
C31_Witness ==
    /\ scheduled_cron # <<>>
    /\ stop_event
    /\ \E i \in DOMAIN runs : runs[i].status \in {"success", "failed"}
    /\ \A e \in SchedExecs : ex[e].pc = "idle"
    /\ loop = "wait"

-----------------------------------------------------------------------------
(* Properties of runs and removed tasks *)

\* C32: a run row is inserted only for a task that is in the store at the
\* moment of the insert: when remove_task comes between a dispatch's read
\* of the task and its record_run_start, no row with the removed task's id
\* is created.
C32_RunInsertedForStoredTask ==
    [][\A i \in DOMAIN runs' \ DOMAIN runs :
          \E t \in tasks : t.id = runs'[i].task_id]_vars

\* The execution in context e has read its task and the task is no longer
\* in the store.
TaskGone(e) == ex[e].task # None /\ Get(ex[e].task) \notin tasks

\* C33: removing a task while one of its runs is in flight does not cancel
\* the run (the removal changes no execution); the run's end is recorded
\* like any other, also when the task is gone: the step that follows the
\* subprocess's exit writes a terminal status to the run's row and run_task
\* returns without raising; and no step, in particular none after the name
\* was added again, leaves two executions of one job name in flight.
C33_RemovalLeavesRunAlone ==
    [][ /\ tasks' # tasks => ex' = ex
        /\ \A e \in SchedExecs :
              (ex[e].pc = "wait" /\ ex'[e] # ex[e]) =>
                  /\ ex'[e].pc = "returned"
                  /\ runs'[Get(ex[e].run_id)].status \in {"success", "failed"}
                  /\ runs'[Get(ex[e].run_id)].finished_at # None
        /\ \A n \in Names :
              Cardinality({s \in Slots : ex'[<<n, s>>].pc # "idle"}) <= 1 ]_vars

\* A run whose task was removed, and a task of the same name added and
\* installed again, has recorded its end; a second fire of the name came
\* while it was in flight and started nothing.
C33_Witness ==
    \E e \in SchedExecs :
        /\ ex[e].pc = "returned"
        /\ TaskGone(e)
        /\ \E t \in tasks : t.name = e[1] /\ t.id # Get(ex[e].task).id
        /\ e[1] \in DOMAIN jobs
        /\ runs[Get(ex[e].run_id)].status = "success"
        /\ hist.fires[e[1]] = 2
        /\ hist.started[e[1]] = 1
        /\ \A s \in Slots : s # e[2] => ex[<<e[1], s>>].pc = "idle"

\* C34: task ids are never reused (a new row's id is larger than every id
\* given before) and history follows the id: every row recent_runs returns,
\* with or without a task name, is a run whose recorded task id is that of
\* a task in the store, reported under that task's name; so after a task
\* was removed and a task of the same name added, none of the removed
\* task's runs is returned.
C34_HistoryFollowsId ==
    [][ /\ \A t \in tasks' \ tasks :
              /\ t.id >= nextTaskId
              /\ \A i \in DOMAIN runs : runs[i].task_id # t.id
        /\ nextTaskId' >= nextTaskId
        /\ \A t \in tasks : t.id < nextTaskId
        /\ IsCall("recent_runs") =>
              \A p \in DOMAIN reply'.value :
                 /\ reply'.value[p].id \in DOMAIN runs
                 /\ runs[reply'.value[p].id].task_id = reply'.value[p].task_id
                 /\ \E t \in tasks :
                       /\ t.id = reply'.value[p].task_id
                       /\ reply'.value[p].task_name = Some(t.name)
                       /\ runs[reply'.value[p].id].stdout_path[2] = t.name ]_vars

\* Task 1, named a, ran and was removed; task 2 was added under the same
\* name and ran; recent_runs for the name a returned the run of task 2 only.
C34_Witness ==
    /\ reply.op = "recent_runs"
    /\ reply.args.task_name = Some("a")
    /\ reply.args.limit = 10
    /\ \E i \in DOMAIN runs :
          /\ runs[i].task_id = 1
          /\ runs[i].stdout_path[2] = "a"
          /\ runs[i].status = "success"
    /\ \A t \in tasks : t.id = 2 /\ t.name = "a"
    /\ Len(reply.value) = 1
    /\ reply.value[1].task_id = 2

-----------------------------------------------------------------------------
(* Properties of the log files *)

\* C35: two distinct runs never capture their output into the same files:
\* any two run rows, of one task or of two, have different stdout paths and
\* different stderr paths, also when both start within one clock second.
C35_LogPathsDistinct ==
    \A i, j \in DOMAIN runs :
        i # j => /\ runs[i].stdout_path # runs[j].stdout_path
                 /\ runs[i].stderr_path # runs[j].stderr_path

-----------------------------------------------------------------------------
(* Properties of the script catalog *)

\* Two names are equal ignoring case.
SameIgnoringCase(a, b) ==
    \/ a = b
    \/ {a, b} \subseteq {"demo", "DEMO", "Demo"}
    \/ {a, b} \subseteq {"job", "JOB"}

\* The step is a call of the ScriptRepository method op.
IsCatalogCall(op) == catalog'.turn # catalog.turn /\ catalog'.op = op

\* C36: starting from the empty catalog, no two stored scripts ever have
\* names equal ignoring case; add_script of a name that matches a stored
\* one ignoring case raises ValueError and leaves the list unchanged, and of
\* any other name appends the script; remove_script(name) removes every
\* entry whose name matches ignoring case and leaves the other entries and
\* their order unchanged.
C36_CatalogNamesUnique ==
    [][ /\ \A i, j \in DOMAIN catalog'.scripts :
              i # j => ~SameIgnoringCase(catalog'.scripts[i].name,
                                         catalog'.scripts[j].name)
        /\ IsCatalogCall("add_script") =>
              IF \E i \in DOMAIN catalog.scripts :
                    SameIgnoringCase(catalog.scripts[i].name, catalog'.arg)
              THEN /\ catalog'.raised = "ValueError"
                   /\ catalog'.scripts = catalog.scripts
              ELSE /\ catalog'.raised = ""
                   /\ Len(catalog'.scripts) = Len(catalog.scripts) + 1
                   /\ SubSeq(catalog'.scripts, 1, Len(catalog.scripts))
                         = catalog.scripts
                   /\ catalog'.scripts[Len(catalog'.scripts)].name = catalog'.arg
        /\ IsCatalogCall("remove_script") =>
              LET Kept(script) == ~SameIgnoringCase(script.name, catalog'.arg)
              IN /\ catalog'.scripts = SelectSeq(catalog.scripts, Kept)
                 /\ catalog'.raised = "" ]_vars

\* With demo and x stored in this order, add_script of DEMO raised
\* ValueError.
C36_Witness ==
    /\ catalog.op = "add_script"
    /\ catalog.arg = "DEMO"
    /\ catalog.raised = "ValueError"
    /\ Len(catalog.scripts) = 2
    /\ catalog.scripts[1].name = "demo"
    /\ catalog.scripts[2].name = "x"

=============================================================================
